---- MODULE Spec2Model ----
(***************************************************************************)
(* A model of quickff/model.py: the potentials (Zero, Harmonic, the four   *)
(* pairwise potentials, TermList), the Parts built on them and the Model   *)
(* that aggregates the Parts.                                              *)
(*                                                                         *)
(* Python floats are modelled as binary floating point numbers with a      *)
(* mantissa of PrecBits bits, an unbounded exponent and round-to-nearest,  *)
(* ties-to-even: the IEEE double of the interpreter with a shorter         *)
(* mantissa.  A float is a record [m, e] of value m * 2^e, kept canonical  *)
(* (m odd, or m = 0 and e = 0), so that = on records is == on floats.      *)
(***************************************************************************)
EXTENDS Integers, Sequences, FiniteSets, TLC

\* Mantissa width of the modelled floats.
PrecBits == 3

----------------------------------------------------------------------------
\* Floating point arithmetic (the interpreter's float, numpy's float64)

\* The value of a function of one argument: With([x \in {v} |-> e]) is e with
\* x standing for the value v.
With(f) == f[CHOOSE x \in DOMAIN f : TRUE]

Abs(x) == IF x < 0 THEN -x ELSE x
Min(a, b) == IF a < b THEN a ELSE b

Pow2(n) == 2^n

RECURSIVE BitLen(_)
BitLen(n) == IF n = 0 THEN 0 ELSE 1 + BitLen(n \div 2)

\* The integer nearest to a/d (a >= 0, d > 0), a tie going to the even one.
RoundHalfEven(a, d) ==
    With([f \in {a \div d} |->
        With([r \in {a % d} |->
        IF 2 * r < d THEN f
        ELSE IF 2 * r > d THEN f + 1
        ELSE IF f % 2 = 0 THEN f ELSE f + 1])])

RECURSIVE Canon(_, _)
Canon(m, e) ==
    IF m = 0 THEN [m |-> 0, e |-> 0]
    ELSE IF m % 2 = 0 THEN Canon(m \div 2, e + 1)
    ELSE [m |-> m, e |-> e]

\* The float nearest to (n/d) * 2^e, for integers n and d > 0.
FRound(n, d, e) ==
    With([a \in {Abs(n)} |->
        \* scale so that the quotient has more than PrecBits bits
        With([need \in {PrecBits + 1 + BitLen(d) - BitLen(a)} |->
        With([up \in {IF a = 0 \/ need < 0 THEN 0 ELSE need} |->
        With([q \in {(a * Pow2(up)) \div d} |->
        With([bits \in {BitLen(q)} |->
        With([k \in {IF bits > PrecBits THEN bits - PrecBits ELSE 0} |->
        With([mant \in {RoundHalfEven(a * Pow2(up), d * Pow2(k))} |->
        Canon(IF n < 0 THEN -mant ELSE mant, e - up + k)])])])])])])])

FZero == [m |-> 0, e |-> 0]
FInt(n) == FRound(n, 1, 0)
FNeg(x) == [m |-> -x.m, e |-> x.e]
FIsZero(x) == x.m = 0

\* x + y: exact when the exponents are close, and the larger operand when the
\* smaller one is below a quarter of its last place.
FAdd(x, y) ==
    IF x.m = 0 THEN y
    ELSE IF y.m = 0 THEN x
    ELSE IF x.e - y.e >= 2 * PrecBits + 2 THEN x
    ELSE IF y.e - x.e >= 2 * PrecBits + 2 THEN y
    ELSE With([e \in {IF x.e < y.e THEN x.e ELSE y.e} |->
             FRound(x.m * Pow2(x.e - e) + y.m * Pow2(y.e - e), 1, e)])

FSub(x, y) == FAdd(x, FNeg(y))
FMul(x, y) ==
    IF x.m = 0 \/ y.m = 0 THEN FZero ELSE FRound(x.m * y.m, 1, x.e + y.e)
\* x / y for y # 0
FDiv(x, y) ==
    IF x.m = 0 THEN FZero
    ELSE IF y.m < 0 THEN FRound(-x.m, -y.m, x.e - y.e)
    ELSE FRound(x.m, y.m, x.e - y.e)

RECURSIVE FPow(_, _)
FPow(x, n) == IF n = 0 THEN FInt(1) ELSE FMul(FPow(x, n - 1), x)

FLess(x, y) == FSub(x, y).m < 0


\* The integer square root of n >= 0.
ISqrt(n) ==
    CHOOSE s \in 0..Pow2((BitLen(n) + 1) \div 2) :
        s * s <= n /\ (s + 1) * (s + 1) > n

\* sqrt(x) for x >= 0, correctly rounded: the root is taken with two guard
\* bits and a sticky bit.
FSqrt(x) ==
    With([m2 \in {IF x.e % 2 = 0 THEN x.m ELSE 2 * x.m} |->
        With([e2 \in {IF x.e % 2 = 0 THEN x.e ELSE x.e - 1} |->
        With([n \in {m2 * Pow2(2 * (PrecBits + 1))} |->
        With([s \in {ISqrt(n)} |->
        With([t \in {2 * s + (IF s * s = n THEN 0 ELSE 1)} |->
        FRound(t, 1, (e2 \div 2) - (PrecBits + 1) - 1)])])])])])

\* exp(z) for z <= 0: the argument is halved until it is below 1/2, the
\* exponential of the small argument is (2 + z)/(2 - z), and the result is
\* squared back.
RECURSIVE FExp(_)
FExp(z) ==
    IF FLess(z, FRound(-1, 2, 0))
    THEN With([h \in {FExp(FRound(z.m, 2, z.e))} |-> FMul(h, h)])
    ELSE FDiv(FAdd(FInt(2), z), FSub(FInt(2), z))

FPi == FRound(314159, 100000, 0)

\* erf(t) for t >= 0, by sqrt(1 - exp(-4 t^2 / pi)).
FErf(t) ==
    FSqrt(FSub(FInt(1), FExp(FNeg(FDiv(FMul(FInt(4), FMul(t, t)), FPi)))))

----------------------------------------------------------------------------
\* numpy arrays: a shape and the elements in row-major order

None == [none |-> TRUE]

Prod(shape) ==
    LET RECURSIVE P(_)
        P(k) == IF k = 0 THEN 1 ELSE shape[k] * P(k - 1)
    IN  P(Len(shape))

\* An array of the given shape with its elements as a tuple: a sequence given
\* by a formula would be evaluated anew at each use of an element.
ndarray(shape, data) == [shape |-> shape, data |-> data \o <<>>]

np_zeros(shape) == ndarray(shape, [k \in 1..Prod(shape) |-> FZero])
np_reshape(a, shape) == [shape |-> shape, data |-> a.data]
\* ndarray.copy(): a new array object holding the elements of the object r
np_copy(h, r) == [heap |-> Append(h, h[r]), ref |-> Len(h) + 1]
np_len(a) == a.shape[1]

\* a + b and a - b, elementwise, for arrays of one shape
np_add(a, b) ==
    ndarray(a.shape, [k \in 1..Len(a.data) |-> FAdd(a.data[k], b.data[k])])
np_sub(a, b) ==
    ndarray(a.shape, [k \in 1..Len(a.data) |-> FSub(a.data[k], b.data[k])])
\* s * a for a float s
np_scale(s, a) ==
    ndarray(a.shape, [k \in 1..Len(a.data) |-> FMul(s, a.data[k])])
\* a * s for a float s
np_times(a, s) ==
    ndarray(a.shape, [k \in 1..Len(a.data) |-> FMul(a.data[k], s)])

\* The sum of a sequence of floats, added from left to right.
FSum(xs) ==
    LET RECURSIVE S(_)
        S(k) == IF k = 0 THEN FZero ELSE FAdd(S(k - 1), xs[k])
    IN  S(Len(xs))

\* np.dot of two vectors, and of a matrix and a vector
np_dot_vv(a, b) == FSum([k \in 1..Len(a.data) |-> FMul(a.data[k], b.data[k])])
np_dot_mv(a, v) ==
    With([n \in {a.shape[1]} |->
        With([c \in {a.shape[2]} |->
        ndarray(<<n>>, [r \in 1..n |->
                     FSum([k \in 1..c |-> FMul(a.data[(r - 1) * c + k], v.data[k])])])])])
np_outer(a, b) ==
    With([n \in {Len(a.data)} |->
        With([c \in {Len(b.data)} |->
        ndarray(<<n, c>>, [k \in 1..(n * c) |->
                     FMul(a.data[((k - 1) \div c) + 1], b.data[((k - 1) % c) + 1])])])])

----------------------------------------------------------------------------
\* quickff.ic.IC over molmod's bond_length: the distance of atoms i and j
\* (counted from 0), its gradient and its Hessian in the 3N coordinates

Coord(coords, a, c) == coords.data[3 * a + c + 1]

IC_value(coords, i, j) ==
    LET d(c) == FSub(Coord(coords, i, c), Coord(coords, j, c)) IN
        FSqrt(FAdd(FAdd(FMul(d(0), d(0)), FMul(d(1), d(1))), FMul(d(2), d(2))))

\* The unit vector from atom j to atom i.
IC_unit(coords, i, j) ==
    With([r \in {IC_value(coords, i, j)} |->
        LET d(c) == FDiv(FSub(Coord(coords, i, c), Coord(coords, j, c)), r) IN
        <<d(0), d(1), d(2)>>])

IC_grad(coords, i, j) ==
    With([n \in {np_len(coords)} |->
        With([u \in {IC_unit(coords, i, j)} |->
        ndarray(<<3 * n>>, [k \in 1..(3 * n) |->
                     With([a \in {(k - 1) \div 3} |->
                         With([c \in {(k - 1) % 3} |->
                         IF a = i THEN u[c + 1]
                         ELSE IF a = j THEN FNeg(u[c + 1])
                         ELSE FZero])])])])])

IC_hess(coords, i, j) ==
    With([n \in {np_len(coords)} |->
        With([r \in {IC_value(coords, i, j)} |->
        With([u \in {IC_unit(coords, i, j)} |->
        LET blk(c, d) ==
            FDiv(FSub(IF c = d THEN FInt(1) ELSE FZero, FMul(u[c + 1], u[d + 1])), r) IN
        ndarray(<<3 * n, 3 * n>>, [k \in 1..(9 * n * n) |->
                     With([row \in {(k - 1) \div (3 * n)} |->
                         With([col \in {(k - 1) % (3 * n)} |->
                         With([a \in {row \div 3} |->
                         With([b \in {col \div 3} |->
                         IF a \in {i, j} /\ b \in {i, j}
                         THEN IF a = b THEN blk(row % 3, col % 3)
                              ELSE FNeg(blk(row % 3, col % 3))
                         ELSE FZero])])])])])])])])

----------------------------------------------------------------------------
\* Python lists of [i, j] pairs

\* pair in lst
InList(pair, lst) == \E k \in 1..Len(lst) : lst[k] = pair

----------------------------------------------------------------------------
\* class CoulPointPot

CoulPointPot_get_scale(self, i, j) ==
    IF InList(<<i, j>>, self.scaled_pairs[1]) \/ InList(<<j, i>>, self.scaled_pairs[1])
    THEN self.scales[1]
    ELSE IF InList(<<i, j>>, self.scaled_pairs[2]) \/ InList(<<j, i>>, self.scaled_pairs[2])
    THEN self.scales[2]
    ELSE IF InList(<<i, j>>, self.scaled_pairs[3]) \/ InList(<<j, i>>, self.scaled_pairs[3])
    THEN self.scales[3]
    ELSE FInt(1)

\* The loops of calc_energy, calc_gradient and calc_hessian run i over the
\* atoms and j over the atoms below i (the break at j >= i); acc.value is the
\* running sum and acc.pairs the pairs that have contributed, in order.
RECURSIVE CoulPointPot_energy_loop(_, _, _, _, _)
CoulPointPot_energy_loop(self, coords, i, j, acc) ==
    IF i >= Len(self.charges) THEN acc
    ELSE IF j >= Len(self.charges) \/ j >= i
    THEN CoulPointPot_energy_loop(self, coords, i + 1, 0, acc)
    ELSE CoulPointPot_energy_loop(self, coords, i, j + 1,
             With([term \in {With([qi \in {self.charges[i + 1]} |->
             With([qj \in {self.charges[j + 1]} |->
             With([scale \in {CoulPointPot_get_scale(self, i, j)} |->
             IF FIsZero(scale)
             THEN None
             ELSE FMul(FDiv(FMul(qi, qj), IC_value(coords, i, j)), scale)])])])} |->
             IF term = None THEN acc
             ELSE [value |-> FAdd(acc.value, term),
                   pairs |-> Append(acc.pairs, <<i, j>>)]]))

CoulPointPot_calc_energy(self, coords) ==
    CoulPointPot_energy_loop(self, coords, 0, 0, [value |-> self.shift, pairs |-> <<>>])

RECURSIVE CoulPointPot_gradient_loop(_, _, _, _, _)
CoulPointPot_gradient_loop(self, coords, i, j, acc) ==
    IF i >= Len(self.charges) THEN acc
    ELSE IF j >= Len(self.charges) \/ j >= i
    THEN CoulPointPot_gradient_loop(self, coords, i + 1, 0, acc)
    ELSE CoulPointPot_gradient_loop(self, coords, i, j + 1,
             With([term \in {With([qi \in {self.charges[i + 1]} |->
             With([qj \in {self.charges[j + 1]} |->
             With([scale \in {CoulPointPot_get_scale(self, i, j)} |->
             With([r \in {IC_value(coords, i, j)} |->
             IF FIsZero(scale)
             THEN None
             ELSE np_times(np_scale(FDiv(FMul(FNeg(qi), qj), FPow(r, 2)),
                                    IC_grad(coords, i, j)),
                           scale)])])])])} |->
             IF term = None THEN acc
             ELSE [value |-> np_add(acc.value, term),
                   pairs |-> Append(acc.pairs, <<i, j>>)]]))

CoulPointPot_calc_gradient(self, coords) ==
    CoulPointPot_gradient_loop(self, coords, 0, 0,
        [value |-> np_zeros(<<3 * Len(self.charges)>>), pairs |-> <<>>])

RECURSIVE CoulPointPot_hessian_loop(_, _, _, _, _)
CoulPointPot_hessian_loop(self, coords, i, j, acc) ==
    IF i >= Len(self.charges) THEN acc
    ELSE IF j >= Len(self.charges) \/ j >= i
    THEN CoulPointPot_hessian_loop(self, coords, i + 1, 0, acc)
    ELSE CoulPointPot_hessian_loop(self, coords, i, j + 1,
             With([term \in {With([qi \in {self.charges[i + 1]} |->
             With([qj \in {self.charges[j + 1]} |->
             With([scale \in {CoulPointPot_get_scale(self, i, j)} |->
             With([r \in {IC_value(coords, i, j)} |->
             With([qgrad \in {IC_grad(coords, i, j)} |->
             IF FIsZero(scale)
             THEN None
             ELSE np_times(np_scale(FDiv(FMul(qi, qj), FPow(r, 2)),
                             np_sub(np_scale(FDiv(FInt(2), r),
                                             np_outer(qgrad, qgrad)),
                                    IC_hess(coords, i, j))),
                           scale)])])])])])} |->
             IF term = None THEN acc
             ELSE [value |-> np_add(acc.value, term),
                   pairs |-> Append(acc.pairs, <<i, j>>)]]))

CoulPointPot_calc_hessian(self, coords) ==
    CoulPointPot_hessian_loop(self, coords, 0, 0,
        [value |-> np_zeros(<<3 * Len(self.charges), 3 * Len(self.charges)>>),
         pairs |-> <<>>])

CoulPointPot_init(charges, scales, scaled_pairs, coords0) ==
    With([self \in {[kind |-> "CoulombPoint", charges |-> charges, scales |-> scales, scaled_pairs |-> scaled_pairs,
                 shift |-> FZero]} |->
        IF coords0 = None THEN self
        ELSE [self EXCEPT !.shift = FNeg(CoulPointPot_calc_energy(self, coords0).value)]])

----------------------------------------------------------------------------
\* class CoulGaussPot

CoulGaussPot_get_scale(self, i, j) ==
    IF InList(<<i, j>>, self.scaled_pairs[1]) \/ InList(<<j, i>>, self.scaled_pairs[1])
    THEN self.scales[1]
    ELSE IF InList(<<i, j>>, self.scaled_pairs[2]) \/ InList(<<j, i>>, self.scaled_pairs[2])
    THEN self.scales[2]
    ELSE IF InList(<<i, j>>, self.scaled_pairs[3]) \/ InList(<<j, i>>, self.scaled_pairs[3])
    THEN self.scales[3]
    ELSE FInt(1)

RECURSIVE CoulGaussPot_energy_loop(_, _, _, _, _)
CoulGaussPot_energy_loop(self, coords, i, j, acc) ==
    IF i >= Len(self.charges) THEN acc
    ELSE IF j >= Len(self.charges) \/ j >= i
    THEN CoulGaussPot_energy_loop(self, coords, i + 1, 0, acc)
    ELSE CoulGaussPot_energy_loop(self, coords, i, j + 1,
             With([term \in {With([qi \in {self.charges[i + 1]} |->
             With([qj \in {self.charges[j + 1]} |->
             With([scale \in {CoulGaussPot_get_scale(self, i, j)} |->
             With([r \in {IC_value(coords, i, j)} |->
             With([sigma \in {FSqrt(FAdd(FPow(self.sigmas[i + 1], 2), FPow(self.sigmas[j + 1], 2)))} |->
             IF FIsZero(scale)
             THEN None
             ELSE FMul(FDiv(FMul(FMul(scale, qi), qj), r),
                       FErf(FDiv(r, sigma)))])])])])])} |->
             IF term = None THEN acc
             ELSE [value |-> FAdd(acc.value, term),
                   pairs |-> Append(acc.pairs, <<i, j>>)]]))

CoulGaussPot_calc_energy(self, coords) ==
    CoulGaussPot_energy_loop(self, coords, 0, 0,
        [value |-> self.shift, pairs |-> <<>>])

\* calc_gradient without the skip of the pairs of scale 0
RECURSIVE Mut_CoulGaussPot_gradient_loop(_, _, _, _, _)
Mut_CoulGaussPot_gradient_loop(self, coords, i, j, acc) ==
    IF i >= Len(self.charges) THEN acc
    ELSE IF j >= Len(self.charges) \/ j >= i
    THEN Mut_CoulGaussPot_gradient_loop(self, coords, i + 1, 0, acc)
    ELSE Mut_CoulGaussPot_gradient_loop(self, coords, i, j + 1,
             With([term \in {With([qi \in {self.charges[i + 1]} |->
             With([qj \in {self.charges[j + 1]} |->
             With([scale \in {CoulGaussPot_get_scale(self, i, j)} |->
             With([r \in {IC_value(coords, i, j)} |->
             With([sigma \in {FSqrt(FAdd(FPow(self.sigmas[i + 1], 2), FPow(self.sigmas[j + 1], 2)))} |->
             With([erf \in {FErf(FDiv(r, sigma))} |->
             With([exp \in {FDiv(FExp(FNeg(FPow(FDiv(r, sigma), 2))), FSqrt(FPi))} |->
             np_scale(FMul(FDiv(FMul(FMul(scale, qi), qj), r),
                           FAdd(FDiv(FNeg(erf), r),
                                FDiv(FMul(FInt(2), exp), sigma))),
                      IC_grad(coords, i, j))])])])])])])])} |->
             IF term = None THEN acc
             ELSE [value |-> np_add(acc.value, term),
                   pairs |-> Append(acc.pairs, <<i, j>>)]]))

RECURSIVE CoulGaussPot_gradient_loop(_, _, _, _, _)
CoulGaussPot_gradient_loop(self, coords, i, j, acc) ==
    IF i >= Len(self.charges) THEN acc
    ELSE IF j >= Len(self.charges) \/ j >= i
    THEN CoulGaussPot_gradient_loop(self, coords, i + 1, 0, acc)
    ELSE CoulGaussPot_gradient_loop(self, coords, i, j + 1,
             With([term \in {With([qi \in {self.charges[i + 1]} |->
             With([qj \in {self.charges[j + 1]} |->
             With([scale \in {CoulGaussPot_get_scale(self, i, j)} |->
             With([r \in {IC_value(coords, i, j)} |->
             With([sigma \in {FSqrt(FAdd(FPow(self.sigmas[i + 1], 2), FPow(self.sigmas[j + 1], 2)))} |->
             With([erf \in {FErf(FDiv(r, sigma))} |->
             With([exp \in {FDiv(FExp(FNeg(FPow(FDiv(r, sigma), 2))), FSqrt(FPi))} |->
             IF FIsZero(scale)
             THEN None
             ELSE np_scale(FMul(FDiv(FMul(FMul(scale, qi), qj), r),
                                FAdd(FDiv(FNeg(erf), r),
                                     FDiv(FMul(FInt(2), exp), sigma))),
                           IC_grad(coords, i, j))])])])])])])])} |->
             IF term = None THEN acc
             ELSE [value |-> np_add(acc.value, term),
                   pairs |-> Append(acc.pairs, <<i, j>>)]]))

CoulGaussPot_calc_gradient(self, coords) ==
    CoulGaussPot_gradient_loop(self, coords, 0, 0,
        [value |-> np_zeros(<<3 * Len(self.charges)>>), pairs |-> <<>>])

RECURSIVE CoulGaussPot_hessian_loop(_, _, _, _, _)
CoulGaussPot_hessian_loop(self, coords, i, j, acc) ==
    IF i >= Len(self.charges) THEN acc
    ELSE IF j >= Len(self.charges) \/ j >= i
    THEN CoulGaussPot_hessian_loop(self, coords, i + 1, 0, acc)
    ELSE CoulGaussPot_hessian_loop(self, coords, i, j + 1,
             With([term \in {With([qi \in {self.charges[i + 1]} |->
             With([qj \in {self.charges[j + 1]} |->
             With([scale \in {CoulGaussPot_get_scale(self, i, j)} |->
             With([r \in {IC_value(coords, i, j)} |->
             With([sigma \in {FSqrt(FAdd(FPow(self.sigmas[i + 1], 2), FPow(self.sigmas[j + 1], 2)))} |->
             With([erf \in {FErf(FDiv(r, sigma))} |->
             With([exp \in {FDiv(FExp(FNeg(FPow(FDiv(r, sigma), 2))), FSqrt(FPi))} |->
             With([qgrad \in {IC_grad(coords, i, j)} |->
             With([dVdr \in {FDiv(FAdd(FDiv(FNeg(erf), r), FMul(FDiv(FInt(2), sigma), exp)), r)} |->
             With([d2Vdr2 \in {FSub(FDiv(FSub(FDiv(erf, r), FDiv(FMul(FInt(2), exp), sigma)),
                                 FPow(r, 2)),
                            FDiv(FMul(FInt(2), exp), FPow(sigma, 3)))} |->
             IF FIsZero(scale)
             THEN None
             ELSE np_scale(FMul(FMul(scale, qi), qj),
                           np_add(np_scale(FMul(FInt(2), d2Vdr2),
                                           np_outer(qgrad, qgrad)),
                                  np_scale(dVdr, IC_hess(coords, i, j))))])])])])])])])])])])} |->
             IF term = None THEN acc
             ELSE [value |-> np_add(acc.value, term),
                   pairs |-> Append(acc.pairs, <<i, j>>)]]))

CoulGaussPot_calc_hessian(self, coords) ==
    CoulGaussPot_hessian_loop(self, coords, 0, 0,
        [value |-> np_zeros(<<3 * Len(self.charges), 3 * Len(self.charges)>>), pairs |-> <<>>])

CoulGaussPot_init(charges, sigmas, scales, scaled_pairs, coords0) ==
    With([self \in {[kind |-> "CoulombGaussian", charges |-> charges, sigmas |-> sigmas, scales |-> scales, scaled_pairs |-> scaled_pairs,
                 shift |-> FZero]} |->
        IF coords0 = None THEN self
        ELSE [self EXCEPT !.shift = FNeg(CoulGaussPot_calc_energy(self, coords0).value)]])

----------------------------------------------------------------------------
\* class LennardJonesPot

LennardJonesPot_get_scale(self, i, j) ==
    IF InList(<<i, j>>, self.scaled_pairs[1]) \/ InList(<<j, i>>, self.scaled_pairs[1])
    THEN self.scales[1]
    ELSE IF InList(<<i, j>>, self.scaled_pairs[2]) \/ InList(<<j, i>>, self.scaled_pairs[2])
    THEN self.scales[2]
    ELSE IF InList(<<i, j>>, self.scaled_pairs[3]) \/ InList(<<j, i>>, self.scaled_pairs[3])
    THEN self.scales[3]
    ELSE FInt(1)

RECURSIVE LennardJonesPot_energy_loop(_, _, _, _, _)
LennardJonesPot_energy_loop(self, coords, i, j, acc) ==
    IF i >= Min(Len(self.sigmas), Len(self.epsilons)) THEN acc
    ELSE IF j >= Min(Len(self.sigmas), Len(self.epsilons)) \/ j >= i
    THEN LennardJonesPot_energy_loop(self, coords, i + 1, 0, acc)
    ELSE LennardJonesPot_energy_loop(self, coords, i, j + 1,
             With([term \in {With([si \in {self.sigmas[i + 1]} |->
             With([ei \in {self.epsilons[i + 1]} |->
             With([sj \in {self.sigmas[j + 1]} |->
             With([ej \in {self.epsilons[j + 1]} |->
             With([scale \in {LennardJonesPot_get_scale(self, i, j)} |->
             With([sigma \in {FMul(FRound(1, 2, 0), FAdd(si, sj))} |->
             With([epsilon \in {FSqrt(FMul(ei, ej))} |->
             With([x \in {FDiv(sigma, IC_value(coords, i, j))} |->
             IF FIsZero(scale)
             THEN None
             ELSE FMul(FMul(FMul(FInt(4), epsilon),
                            FSub(FPow(x, 12), FPow(x, 6))),
                       scale)])])])])])])])])} |->
             IF term = None THEN acc
             ELSE [value |-> FAdd(acc.value, term),
                   pairs |-> Append(acc.pairs, <<i, j>>)]]))

LennardJonesPot_calc_energy(self, coords) ==
    LennardJonesPot_energy_loop(self, coords, 0, 0,
        [value |-> self.shift, pairs |-> <<>>])

RECURSIVE LennardJonesPot_gradient_loop(_, _, _, _, _)
LennardJonesPot_gradient_loop(self, coords, i, j, acc) ==
    IF i >= Min(Len(self.sigmas), Len(self.epsilons)) THEN acc
    ELSE IF j >= Min(Len(self.sigmas), Len(self.epsilons)) \/ j >= i
    THEN LennardJonesPot_gradient_loop(self, coords, i + 1, 0, acc)
    ELSE LennardJonesPot_gradient_loop(self, coords, i, j + 1,
             With([term \in {With([si \in {self.sigmas[i + 1]} |->
             With([ei \in {self.epsilons[i + 1]} |->
             With([sj \in {self.sigmas[j + 1]} |->
             With([ej \in {self.epsilons[j + 1]} |->
             With([scale \in {LennardJonesPot_get_scale(self, i, j)} |->
             With([sigma \in {FMul(FRound(1, 2, 0), FAdd(si, sj))} |->
             With([epsilon \in {FSqrt(FMul(ei, ej))} |->
             With([x \in {FDiv(sigma, IC_value(coords, i, j))} |->
             IF FIsZero(scale)
             THEN None
             ELSE np_times(np_scale(FMul(FDiv(FMul(FInt(24), epsilon), sigma),
                                         FSub(FMul(FInt(2), FPow(x, 13)),
                                              FPow(x, 7))),
                                    IC_grad(coords, i, j)),
                           scale)])])])])])])])])} |->
             IF term = None THEN acc
             ELSE [value |-> np_sub(acc.value, term),
                   pairs |-> Append(acc.pairs, <<i, j>>)]]))

LennardJonesPot_calc_gradient(self, coords) ==
    LennardJonesPot_gradient_loop(self, coords, 0, 0,
        [value |-> np_zeros(<<3 * np_len(coords)>>), pairs |-> <<>>])

RECURSIVE LennardJonesPot_hessian_loop(_, _, _, _, _)
LennardJonesPot_hessian_loop(self, coords, i, j, acc) ==
    IF i >= Min(Len(self.sigmas), Len(self.epsilons)) THEN acc
    ELSE IF j >= Min(Len(self.sigmas), Len(self.epsilons)) \/ j >= i
    THEN LennardJonesPot_hessian_loop(self, coords, i + 1, 0, acc)
    ELSE LennardJonesPot_hessian_loop(self, coords, i, j + 1,
             With([terms \in {With([si \in {self.sigmas[i + 1]} |->
             With([ei \in {self.epsilons[i + 1]} |->
             With([sj \in {self.sigmas[j + 1]} |->
             With([ej \in {self.epsilons[j + 1]} |->
             With([scale \in {LennardJonesPot_get_scale(self, i, j)} |->
             With([sigma \in {FMul(FRound(1, 2, 0), FAdd(si, sj))} |->
             With([epsilon \in {FSqrt(FMul(ei, ej))} |->
             With([x \in {FDiv(sigma, IC_value(coords, i, j))} |->
             With([qgrad \in {IC_grad(coords, i, j)} |->
             IF FIsZero(scale)
             THEN None
             ELSE << np_times(np_scale(FMul(FDiv(FMul(FInt(24), epsilon),
                                                 FPow(sigma, 2)),
                                            FSub(FMul(FInt(26), FPow(x, 14)),
                                                 FMul(FInt(7), FPow(x, 8)))),
                                       np_outer(qgrad, qgrad)),
                              scale),
                     np_times(np_scale(FMul(FDiv(FMul(FInt(24), epsilon), sigma),
                                            FSub(FMul(FInt(2), FPow(x, 13)),
                                                 FPow(x, 7))),
                                       IC_hess(coords, i, j)),
                              scale) >>])])])])])])])])])} |->
             IF terms = None THEN acc
             ELSE [value |-> np_sub(np_add(acc.value, terms[1]), terms[2]),
                   pairs |-> Append(acc.pairs, <<i, j>>)]]))

LennardJonesPot_calc_hessian(self, coords) ==
    LennardJonesPot_hessian_loop(self, coords, 0, 0,
        [value |-> np_zeros(<<3 * np_len(coords), 3 * np_len(coords)>>), pairs |-> <<>>])

\* __init__ storing the energy at coords0 as the shift, without the sign
Mut_LennardJonesPot_init(sigmas, epsilons, scales, scaled_pairs, coords0) ==
    With([self \in {[kind |-> "LennartJones", sigmas |-> sigmas, epsilons |-> epsilons,
                 scales |-> scales, scaled_pairs |-> scaled_pairs, shift |-> FZero]} |->
        IF coords0 = None THEN self
        ELSE [self EXCEPT !.shift = LennardJonesPot_calc_energy(self, coords0).value]])

LennardJonesPot_init(sigmas, epsilons, scales, scaled_pairs, coords0) ==
    With([self \in {[kind |-> "LennartJones", sigmas |-> sigmas, epsilons |-> epsilons, scales |-> scales, scaled_pairs |-> scaled_pairs,
                 shift |-> FZero]} |->
        IF coords0 = None THEN self
        ELSE [self EXCEPT !.shift = FNeg(LennardJonesPot_calc_energy(self, coords0).value)]])

----------------------------------------------------------------------------
\* class MM3BuckinghamPot

\* _get_scale without the [j, i] test on the 1-3 list
Mut_MM3BuckinghamPot_get_scale(self, i, j) ==
    IF InList(<<i, j>>, self.scaled_pairs[1]) \/ InList(<<j, i>>, self.scaled_pairs[1])
    THEN self.scales[1]
    ELSE IF InList(<<i, j>>, self.scaled_pairs[2])
    THEN self.scales[2]
    ELSE IF InList(<<i, j>>, self.scaled_pairs[3]) \/ InList(<<j, i>>, self.scaled_pairs[3])
    THEN self.scales[3]
    ELSE FInt(1)

MM3BuckinghamPot_get_scale(self, i, j) ==
    IF InList(<<i, j>>, self.scaled_pairs[1]) \/ InList(<<j, i>>, self.scaled_pairs[1])
    THEN self.scales[1]
    ELSE IF InList(<<i, j>>, self.scaled_pairs[2]) \/ InList(<<j, i>>, self.scaled_pairs[2])
    THEN self.scales[2]
    ELSE IF InList(<<i, j>>, self.scaled_pairs[3]) \/ InList(<<j, i>>, self.scaled_pairs[3])
    THEN self.scales[3]
    ELSE FInt(1)

RECURSIVE MM3BuckinghamPot_energy_loop(_, _, _, _, _)
MM3BuckinghamPot_energy_loop(self, coords, i, j, acc) ==
    IF i >= Min(Len(self.sigmas), Len(self.epsilons)) THEN acc
    ELSE IF j >= Min(Len(self.sigmas), Len(self.epsilons)) \/ j >= i
    THEN MM3BuckinghamPot_energy_loop(self, coords, i + 1, 0, acc)
    ELSE MM3BuckinghamPot_energy_loop(self, coords, i, j + 1,
             With([term \in {With([si \in {self.sigmas[i + 1]} |->
             With([ei \in {self.epsilons[i + 1]} |->
             With([sj \in {self.sigmas[j + 1]} |->
             With([ej \in {self.epsilons[j + 1]} |->
             With([scale \in {MM3BuckinghamPot_get_scale(self, i, j)} |->
             With([sigma \in {FMul(FRound(1, 2, 0), FAdd(si, sj))} |->
             With([epsilon \in {FSqrt(FMul(ei, ej))} |->
             With([x \in {FDiv(IC_value(coords, i, j), sigma)} |->
             With([expx \in {FExp(FMul(FInt(-12), x))} |->
             IF FIsZero(scale)
             THEN None
             ELSE FMul(FMul(scale, epsilon),
                       FSub(FMul(FInt(184000), expx),
                            FDiv(FRound(9, 4, 0), FPow(x, 6))))])])])])])])])])])} |->
             IF term = None THEN acc
             ELSE [value |-> FAdd(acc.value, term),
                   pairs |-> Append(acc.pairs, <<i, j>>)]]))

MM3BuckinghamPot_calc_energy(self, coords) ==
    MM3BuckinghamPot_energy_loop(self, coords, 0, 0,
        [value |-> self.shift, pairs |-> <<>>])

RECURSIVE MM3BuckinghamPot_gradient_loop(_, _, _, _, _)
MM3BuckinghamPot_gradient_loop(self, coords, i, j, acc) ==
    IF i >= Min(Len(self.sigmas), Len(self.epsilons)) THEN acc
    ELSE IF j >= Min(Len(self.sigmas), Len(self.epsilons)) \/ j >= i
    THEN MM3BuckinghamPot_gradient_loop(self, coords, i + 1, 0, acc)
    ELSE MM3BuckinghamPot_gradient_loop(self, coords, i, j + 1,
             With([term \in {With([si \in {self.sigmas[i + 1]} |->
             With([ei \in {self.epsilons[i + 1]} |->
             With([sj \in {self.sigmas[j + 1]} |->
             With([ej \in {self.epsilons[j + 1]} |->
             With([scale \in {MM3BuckinghamPot_get_scale(self, i, j)} |->
             With([sigma \in {FMul(FRound(1, 2, 0), FAdd(si, sj))} |->
             With([epsilon \in {FSqrt(FMul(ei, ej))} |->
             With([x \in {FDiv(IC_value(coords, i, j), sigma)} |->
             With([expx \in {FExp(FMul(FInt(-12), x))} |->
             IF FIsZero(scale)
             THEN None
             ELSE np_scale(FMul(FDiv(FMul(scale, epsilon), sigma),
                                FAdd(FMul(FInt(-2208000), expx),
                                     FDiv(FRound(27, 2, 0), FPow(x, 7)))),
                           IC_grad(coords, i, j))])])])])])])])])])} |->
             IF term = None THEN acc
             ELSE [value |-> np_add(acc.value, term),
                   pairs |-> Append(acc.pairs, <<i, j>>)]]))

MM3BuckinghamPot_calc_gradient(self, coords) ==
    MM3BuckinghamPot_gradient_loop(self, coords, 0, 0,
        [value |-> np_zeros(<<3 * np_len(coords)>>), pairs |-> <<>>])

RECURSIVE MM3BuckinghamPot_hessian_loop(_, _, _, _, _)
MM3BuckinghamPot_hessian_loop(self, coords, i, j, acc) ==
    IF i >= Min(Len(self.sigmas), Len(self.epsilons)) THEN acc
    ELSE IF j >= Min(Len(self.sigmas), Len(self.epsilons)) \/ j >= i
    THEN MM3BuckinghamPot_hessian_loop(self, coords, i + 1, 0, acc)
    ELSE MM3BuckinghamPot_hessian_loop(self, coords, i, j + 1,
             With([term \in {With([si \in {self.sigmas[i + 1]} |->
             With([ei \in {self.epsilons[i + 1]} |->
             With([sj \in {self.sigmas[j + 1]} |->
             With([ej \in {self.epsilons[j + 1]} |->
             With([scale \in {MM3BuckinghamPot_get_scale(self, i, j)} |->
             With([sigma \in {FMul(FRound(1, 2, 0), FAdd(si, sj))} |->
             With([epsilon \in {FSqrt(FMul(ei, ej))} |->
             With([x \in {FDiv(IC_value(coords, i, j), sigma)} |->
             With([expx \in {FExp(FMul(FInt(-12), x))} |->
             With([qgrad \in {IC_grad(coords, i, j)} |->
             With([dVdr \in {FAdd(FMul(FInt(-2208000), expx), FDiv(FRound(27, 2, 0), FPow(x, 7)))} |->
             With([d2Vdr2 \in {FSub(FMul(FInt(26496000), expx), FDiv(FRound(189, 2, 0), FPow(x, 8)))} |->
             IF FIsZero(scale)
             THEN None
             ELSE np_scale(FDiv(FMul(scale, epsilon), sigma),
                           np_add(np_scale(FDiv(d2Vdr2, sigma),
                                           np_outer(qgrad, qgrad)),
                                  np_scale(dVdr, IC_hess(coords, i, j))))])])])])])])])])])])])])} |->
             IF term = None THEN acc
             ELSE [value |-> np_add(acc.value, term),
                   pairs |-> Append(acc.pairs, <<i, j>>)]]))

MM3BuckinghamPot_calc_hessian(self, coords) ==
    MM3BuckinghamPot_hessian_loop(self, coords, 0, 0,
        [value |-> np_zeros(<<3 * np_len(coords), 3 * np_len(coords)>>), pairs |-> <<>>])

MM3BuckinghamPot_init(sigmas, epsilons, scales, scaled_pairs, coords0) ==
    With([self \in {[kind |-> "MM3Buckingham", sigmas |-> sigmas, epsilons |-> epsilons, scales |-> scales, scaled_pairs |-> scaled_pairs,
                 shift |-> FZero]} |->
        IF coords0 = None THEN self
        ELSE [self EXCEPT !.shift = FNeg(MM3BuckinghamPot_calc_energy(self, coords0).value)]])

----------------------------------------------------------------------------
\* Dispatch on the class of a potential (BasePart.calc_* call self.pot.calc_*)

Pot_get_scale(p, i, j) ==
    CASE p.cls = "CoulPointPot" -> CoulPointPot_get_scale(p, i, j)
      [] p.cls = "CoulGaussPot" -> CoulGaussPot_get_scale(p, i, j)
      [] p.cls = "LennardJonesPot" -> LennardJonesPot_get_scale(p, i, j)
      [] p.cls = "MM3BuckinghamPot" -> MM3BuckinghamPot_get_scale(p, i, j)

\* The result of calc_energy, calc_gradient, calc_hessian with the pairs that
\* contributed to it.
PairPot_calc_energy(p, coords) ==
    CASE p.cls = "CoulPointPot" -> CoulPointPot_calc_energy(p, coords)
      [] p.cls = "CoulGaussPot" -> CoulGaussPot_calc_energy(p, coords)
      [] p.cls = "LennardJonesPot" -> LennardJonesPot_calc_energy(p, coords)
      [] p.cls = "MM3BuckinghamPot" -> MM3BuckinghamPot_calc_energy(p, coords)

PairPot_calc_gradient(p, coords) ==
    CASE p.cls = "CoulPointPot" -> CoulPointPot_calc_gradient(p, coords)
      [] p.cls = "CoulGaussPot" -> CoulGaussPot_calc_gradient(p, coords)
      [] p.cls = "LennardJonesPot" -> LennardJonesPot_calc_gradient(p, coords)
      [] p.cls = "MM3BuckinghamPot" -> MM3BuckinghamPot_calc_gradient(p, coords)

PairPot_calc_hessian(p, coords) ==
    CASE p.cls = "CoulPointPot" -> CoulPointPot_calc_hessian(p, coords)
      [] p.cls = "CoulGaussPot" -> CoulGaussPot_calc_hessian(p, coords)
      [] p.cls = "LennardJonesPot" -> LennardJonesPot_calc_hessian(p, coords)
      [] p.cls = "MM3BuckinghamPot" -> MM3BuckinghamPot_calc_hessian(p, coords)

----------------------------------------------------------------------------
\* Inputs

FArray(shape, ints) ==
    ndarray(shape, [k \in 1..Len(ints) |-> FInt(ints[k])])
FList(ints) == [k \in 1..Len(ints) |-> FInt(ints[k])]

Half == FRound(1, 2, 0)
Quarter == FRound(1, 4, 0)

\* The atoms a pairwise potential is built for: per-atom parameters, a
\* reference geometry and a displaced geometry.
Molecules ==
    { [charges |-> FList(<<1, -1>>), radii |-> FList(<<1, 1>>),
       sigmas |-> FList(<<2, 2>>), epsilons |-> FList(<<1, 1>>),
       coords |-> FArray(<<2, 3>>, <<0, 0, 0, 1, 0, 0>>),
       moved |-> FArray(<<2, 3>>, <<0, 0, 0, 1, 2, 2>>)],
      [charges |-> FList(<<1, 1, 1>>), radii |-> FList(<<1, 2, 1>>),
       sigmas |-> FList(<<2, 3, 2>>), epsilons |-> FList(<<1, 2, 1>>),
       coords |-> FArray(<<3, 3>>, <<0, 0, 0, 1, 0, 0, 4, 0, 0>>),
       moved |-> FArray(<<3, 3>>, <<0, 0, 0, 1, 2, 0, 4, 0, 1>>)] }

ScaleTriples ==
    { <<FZero, FZero, FInt(1)>>, <<FInt(1), FInt(1), FInt(1)>>,
      <<Half, FZero, FInt(1)>>, <<Quarter, Half, FZero>> }

\* The lists of [i, j] pairs a scale applies to, for n atoms.
PairLists(n) ==
    IF n = 2 THEN { <<>>, << <<0, 1>> >>, << <<1, 0>> >> }
    ELSE { <<>>, << <<0, 1>> >>, << <<1, 0>>, <<2, 1>> >> }

PairwiseClasses == {"CoulPointPot", "CoulGaussPot", "LennardJonesPot", "MM3BuckinghamPot"}

VARIABLES
    focus,      \* the class the caller exercises
    pot,        \* the potential object, None before it is constructed
    caller,     \* what the caller passed to the constructor
    ret,        \* the last call and what it returned
    heap        \* the array objects that are shared by reference

vars == <<focus, pot, caller, ret, heap>>

NoCall == [op |-> "none"]

----------------------------------------------------------------------------
\* The pairwise potentials

InitPairwise ==
    /\ focus = "pairwise"
    /\ pot = None
    /\ caller = None
    /\ ret = NoCall
    /\ heap = <<>>

\* CoulPointPot(...), CoulGaussPot(...), LennardJonesPot(...), MM3BuckinghamPot(...)
PairPot_new(cls, mol, scales, scaled_pairs, coords0) ==
    With([self \in {CASE cls = "CoulPointPot" ->
               CoulPointPot_init(mol.charges, scales, scaled_pairs, coords0)
          [] cls = "CoulGaussPot" ->
               CoulGaussPot_init(mol.charges, mol.radii, scales, scaled_pairs, coords0)
          [] cls = "LennardJonesPot" ->
               LennardJonesPot_init(mol.sigmas, mol.epsilons, scales, scaled_pairs, coords0)
          [] cls = "MM3BuckinghamPot" ->
               MM3BuckinghamPot_init(mol.sigmas, mol.epsilons, scales, scaled_pairs, coords0)} |->
        [cls |-> cls] @@ self])

Construct ==
    /\ focus = "pairwise"
    /\ pot = None
    /\ \E cls \in PairwiseClasses, mol \in Molecules, scales \in ScaleTriples :
       \E l1 \in PairLists(Len(mol.charges)), l2 \in PairLists(Len(mol.charges)),
          l3 \in PairLists(Len(mol.charges)), coords0 \in {None, mol.coords} :
          /\ pot' = PairPot_new(cls, mol, scales, <<l1, l2, l3>>, coords0)
          /\ caller' = [coords0 |-> coords0, coords |-> mol.coords,
                        moved |-> mol.moved, natoms |-> Len(mol.charges)]
          /\ ret' = [op |-> "__init__"]
    /\ UNCHANGED <<focus, heap>>

\* The caller takes the result of the last call; the next call follows.
Return ==
    /\ ret # NoCall
    /\ ret' = NoCall
    /\ UNCHANGED <<focus, pot, caller, heap>>

GetScale ==
    /\ focus = "pairwise"
    /\ pot # None /\ ret = NoCall
    /\ \E i \in 0..(caller.natoms - 1), j \in 0..(caller.natoms - 1) :
          ret' = [op |-> "_get_scale", i |-> i, j |-> j, value |-> Pot_get_scale(pot, i, j)]
    /\ UNCHANGED <<focus, pot, caller, heap>>

CalcEnergy ==
    /\ focus = "pairwise"
    /\ pot # None /\ ret = NoCall
    /\ \E coords \in {caller.coords, caller.moved} :
          ret' = [op |-> "calc_energy", coords |-> coords]
                    @@ PairPot_calc_energy(pot, coords)
    /\ UNCHANGED <<focus, pot, caller, heap>>

CalcGradient ==
    /\ focus = "pairwise"
    /\ pot # None /\ ret = NoCall
    /\ \E coords \in {caller.coords, caller.moved} :
          ret' = [op |-> "calc_gradient", coords |-> coords]
                    @@ PairPot_calc_gradient(pot, coords)
    /\ UNCHANGED <<focus, pot, caller, heap>>

CalcHessian ==
    /\ focus = "pairwise"
    /\ pot # None /\ ret = NoCall
    /\ \E coords \in {caller.coords, caller.moved} :
          ret' = [op |-> "calc_hessian", coords |-> coords]
                    @@ PairPot_calc_hessian(pot, coords)
    /\ UNCHANGED <<focus, pot, caller, heap>>

NextPairwise == Construct \/ GetScale \/ CalcEnergy \/ CalcGradient \/ CalcHessian \/ Return

SpecPairwise == InitPairwise /\ [][NextPairwise]_vars

----------------------------------------------------------------------------
\* Claims on the pairwise potentials

\* [i, j] or [j, i] is in the k-th list of the potential
Listed(p, k, i, j) ==
    \E e \in 1..Len(p.scaled_pairs[k]) :
        {p.scaled_pairs[k][e][1], p.scaled_pairs[k][e][2]} = {i, j}

\* C1: for every pairwise potential and every atom pair (i, j), _get_scale
\* returns scales[0] if the unordered pair is in the 1-2 list, otherwise
\* scales[1] if it is in the 1-3 list, otherwise scales[2] if it is in the 1-4
\* list, otherwise 1.0, and _get_scale(i, j) = _get_scale(j, i).
C1_ScaleOfUnorderedPair ==
    (focus = "pairwise" /\ ret.op = "_get_scale") =>
        /\ ret.value = (IF Listed(pot, 1, ret.i, ret.j) THEN pot.scales[1]
                        ELSE IF Listed(pot, 2, ret.i, ret.j) THEN pot.scales[2]
                        ELSE IF Listed(pot, 3, ret.i, ret.j) THEN pot.scales[3]
                        ELSE FInt(1))
        /\ ret.value = Pot_get_scale(pot, ret.j, ret.i)

\* A pair that is in the 1-3 list only as [j, i] and in the 1-4 list as well
\* has been resolved to the 1-3 scale, which differs from the 1-4 scale.
C1_Witness ==
    /\ focus = "pairwise" /\ ret.op = "_get_scale"
    /\ ~Listed(pot, 1, ret.i, ret.j)
    /\ Listed(pot, 2, ret.i, ret.j) /\ ~InList(<<ret.i, ret.j>>, pot.scaled_pairs[2])
    /\ Listed(pot, 3, ret.i, ret.j)
    /\ pot.scales[2] # pot.scales[3]
    /\ ret.value = pot.scales[2]

\* The potential with its shift taken out.
Unshifted(p) == [p EXCEPT !.shift = FZero]

\* C2 as stated: a pairwise potential constructed with a reference geometry
\* coords0 gives calc_energy(coords0) = 0.
C2_EnergyAtReferenceIsZero ==
    (focus = "pairwise" /\ ret.op = "calc_energy" /\ caller.coords0 # None
        /\ ret.coords = caller.coords0) => ret.value = FZero

\* C2 as amended: the constructor sets shift = -(unshifted energy at coords0),
\* calc_energy(coords0) = 0 when at most one pair contributes, and for two
\* atoms of charges +1 and -1 at distance 1 with scale 1 the unshifted
\* CoulombPoint energy is -1 and the shifted energy at coords0 is 0.
C2_ShiftCancelsOnePair ==
    (focus = "pairwise" /\ ret.op = "calc_energy") =>
        /\ caller.coords0 = None => pot.shift = FZero
        /\ caller.coords0 # None =>
              pot.shift = FNeg(PairPot_calc_energy(Unshifted(pot), caller.coords0).value)
        /\ (caller.coords0 # None /\ ret.coords = caller.coords0 /\ Len(ret.pairs) <= 1)
              => ret.value = FZero
        /\ (pot.cls = "CoulPointPot" /\ pot.charges = <<FInt(1), FInt(-1)>>
              /\ ret.coords = caller.coords /\ Pot_get_scale(pot, 1, 0) = FInt(1)) =>
              ret.value = (IF caller.coords0 = None THEN FInt(-1) ELSE FZero)

\* One pair contributes, the shift is not zero and the energy at coords0 is.
C2_Witness ==
    /\ focus = "pairwise" /\ ret.op = "calc_energy"
    /\ caller.coords0 # None /\ ret.coords = caller.coords0
    /\ Len(ret.pairs) = 1
    /\ pot.shift # FZero
    /\ ret.value = FZero

\* C3: in calc_energy, calc_gradient and calc_hessian the contributing pairs
\* are visited as (i, j) with j < i, none twice and none as (j, i) as well,
\* and they are exactly the pairs whose scale is not 0: the same set for the
\* three methods of one potential.
C3_PairsContributeOnce ==
    (focus = "pairwise" /\ ret.op \in {"calc_energy", "calc_gradient", "calc_hessian"}) =>
        /\ \A k \in 1..Len(ret.pairs) : ret.pairs[k][2] < ret.pairs[k][1]
        /\ \A k, l \in 1..Len(ret.pairs) :
              k # l => {ret.pairs[k][1], ret.pairs[k][2]} # {ret.pairs[l][1], ret.pairs[l][2]}
        /\ {ret.pairs[k] : k \in 1..Len(ret.pairs)} =
              {ij \in (0..(caller.natoms - 1)) \X (0..(caller.natoms - 1)) :
                  ij[2] < ij[1] /\ ~FIsZero(Pot_get_scale(pot, ij[1], ij[2]))}

\* A Hessian of three atoms in which one pair has scale 0 and two contribute.
C3_Witness ==
    /\ focus = "pairwise" /\ ret.op = "calc_hessian"
    /\ caller.natoms = 3
    /\ Len(ret.pairs) = 2
    /\ \E i \in 0..2, j \in 0..2 : j < i /\ FIsZero(Pot_get_scale(pot, i, j))

----------------------------------------------------------------------------
\* class HarmonicPot

\* __init__ keeping the caller's Hessian object instead of a copy of it
Mut_HarmonicPot_init(h, kind, coords0, energy0, grad0, hess0) ==
    With([c1 \in {np_copy(h, coords0)} |->
        With([c2 \in {np_copy(c1.heap, grad0)} |->
        [heap |-> c2.heap,
         self |-> [cls |-> "HarmonicPot", kind |-> <<kind, "(Harmonic)">>,
                   coords0 |-> c1.ref, energy0 |-> energy0, grad0 |-> c2.ref,
                   hess0 |-> hess0, natoms |-> np_len(h[coords0])]]])])

\* coords0, grad0 and hess0 are array objects of the heap h
HarmonicPot_init(h, kind, coords0, energy0, grad0, hess0) ==
    With([c1 \in {np_copy(h, coords0)} |->
        With([c2 \in {np_copy(c1.heap, grad0)} |->
        With([c3 \in {np_copy(c2.heap, hess0)} |->
        [heap |-> c3.heap,
         self |-> [cls |-> "HarmonicPot", kind |-> <<kind, "(Harmonic)">>,
                   coords0 |-> c1.ref, energy0 |-> energy0, grad0 |-> c2.ref,
                   hess0 |-> c3.ref, natoms |-> np_len(h[coords0])]]])])])

HarmonicPot_calc_energy(h, self, coords) ==
    With([n \in {3 * self.natoms} |->
        With([dx \in {np_reshape(np_sub(coords, h[self.coords0]), <<n>>)} |->
        With([e1 \in {FAdd(self.energy0, np_dot_vv(np_reshape(h[self.grad0], <<n>>), dx))} |->
        FAdd(e1, FMul(Half, np_dot_vv(dx, np_dot_mv(np_reshape(h[self.hess0], <<n, n>>), dx))))])])])

\* grad0 is added as it is stored, without a reshape
HarmonicPot_calc_gradient(h, self, coords) ==
    With([n \in {3 * self.natoms} |->
        With([dx \in {np_reshape(np_sub(coords, h[self.coords0]), <<n>>)} |->
        np_add(h[self.grad0], np_dot_mv(np_reshape(h[self.hess0], <<n, n>>), dx))])])

\* the stored Hessian object itself is returned
HarmonicPot_calc_hessian(h, self, coords) == self.hess0

\* What a caller builds a HarmonicPot from: X0 (N x 3), E0, G0 (3N) and
\* H0 (3N x 3N), and a displaced geometry.
HarmonicInputs ==
    { [coords0 |-> FArray(<<1, 3>>, <<1, 0, 2>>), energy0 |-> e0,
       grad0 |-> FArray(<<3>>, <<1, -1, 2>>),
       hess0 |-> FArray(<<3, 3>>, <<2, 1, 0, 1, 2, 0, 0, 0, 1>>),
       moved |-> FArray(<<1, 3>>, <<2, 0, 1>>)] : e0 \in {FZero, Half} }
    \cup
    { [coords0 |-> FArray(<<2, 3>>, <<0, 0, 0, 1, 0, 0>>), energy0 |-> e0,
       grad0 |-> FArray(<<6>>, <<1, 0, -1, 0, 2, 0>>),
       hess0 |-> FArray(<<6, 6>>, [k \in 1..36 |->
                    IF (k - 1) \div 6 = (k - 1) % 6 THEN 2
                    ELSE IF Abs(((k - 1) \div 6) - ((k - 1) % 6)) = 1 THEN -1 ELSE 0]),
       moved |-> FArray(<<2, 3>>, <<0, 0, 0, 1, 2, 2>>)] : e0 \in {FZero, Half} }

InitHarmonic ==
    /\ focus = "harmonic"
    /\ pot = None
    /\ caller = None
    /\ ret = NoCall
    /\ heap = <<>>

\* The caller creates its arrays and passes them to HarmonicPot(...).
HarmonicConstruct ==
    /\ focus = "harmonic"
    /\ pot = None
    /\ \E in \in HarmonicInputs :
          LET new == HarmonicPot_init(<<in.coords0, in.grad0, in.hess0>>, "AbInitio",
                                      1, in.energy0, 2, 3)
          IN  /\ heap' = new.heap
              /\ pot' = new.self
              /\ caller' = [coords0 |-> 1, grad0 |-> 2, hess0 |-> 3, given |-> in]
    /\ ret' = [op |-> "__init__"]
    /\ UNCHANGED focus

\* The caller writes into an array it passed to the constructor.
CallerWrites ==
    /\ focus = "harmonic"
    /\ pot # None /\ ret = NoCall
    /\ \E r \in {caller.coords0, caller.grad0, caller.hess0} :
       \E k \in {1, Len(heap[r].data)} :
          /\ heap[r].data[k] # FInt(7)
          /\ heap' = [heap EXCEPT ![r].data[k] = FInt(7)]
    /\ UNCHANGED <<focus, pot, caller, ret>>

\* coords is the geometry given to the constructor, what the caller's array
\* holds by now, or the displaced geometry
HarmonicCalcEnergy ==
    /\ focus = "harmonic"
    /\ pot # None /\ ret = NoCall
    /\ \E coords \in {caller.given.coords0, heap[caller.coords0], caller.given.moved} :
          ret' = [op |-> "calc_energy", coords |-> coords,
                  value |-> HarmonicPot_calc_energy(heap, pot, coords)]
    /\ UNCHANGED <<focus, pot, caller, heap>>

HarmonicCalcGradient ==
    /\ focus = "harmonic"
    /\ pot # None /\ ret = NoCall
    /\ \E coords \in {caller.given.coords0, heap[caller.coords0], caller.given.moved} :
          ret' = [op |-> "calc_gradient", coords |-> coords,
                  value |-> HarmonicPot_calc_gradient(heap, pot, coords)]
    /\ UNCHANGED <<focus, pot, caller, heap>>

HarmonicCalcHessian ==
    /\ focus = "harmonic"
    /\ pot # None /\ ret = NoCall
    /\ \E coords \in {caller.given.coords0, heap[caller.coords0], caller.given.moved} :
          ret' = [op |-> "calc_hessian", coords |-> coords,
                  ref |-> HarmonicPot_calc_hessian(heap, pot, coords)]
    /\ UNCHANGED <<focus, pot, caller, heap>>

NextHarmonic ==
    \/ HarmonicConstruct \/ CallerWrites \/ HarmonicCalcEnergy
    \/ HarmonicCalcGradient \/ HarmonicCalcHessian \/ Return

SpecHarmonic == InitHarmonic /\ [][NextHarmonic]_vars

\* C4: for a HarmonicPot built from (X0, E0, G0, H0), calc_energy(X0) = E0,
\* calc_gradient(X0) = G0 element by element and calc_hessian(X) = H0 for
\* every X, whatever the caller has written since into the arrays it passed
\* to the constructor.
C4_HarmonicReproducesReference ==
    focus = "harmonic" =>
        /\ (ret.op = "calc_energy" /\ ret.coords = caller.given.coords0)
              => ret.value = caller.given.energy0
        /\ (ret.op = "calc_gradient" /\ ret.coords = caller.given.coords0)
              => ret.value = caller.given.grad0
        /\ ret.op = "calc_hessian" => heap[ret.ref] = caller.given.hess0

\* The caller has overwritten elements of the three arrays it passed, and a
\* Hessian at the displaced geometry has been returned.
C4_Witness ==
    /\ focus = "harmonic" /\ ret.op = "calc_hessian"
    /\ ret.coords = caller.given.moved
    /\ heap[caller.coords0] # caller.given.coords0
    /\ heap[caller.grad0] # caller.given.grad0
    /\ heap[caller.hess0] # caller.given.hess0

----------------------------------------------------------------------------
\* Python strings: sequences of characters, ordered by character code

Alphabet ==
    <<"/", "0", "1", "2", "3", "A", "B", "C", "D", "E", "F", "G", "H", "I", "J", "K",
      "L", "M", "N", "O", "P", "Q", "R", "S", "T", "U", "V", "W", "X", "Y", "Z", "_",
      "a", "b", "c", "d", "e", "f", "g", "h", "i", "j", "k", "l", "m", "n", "o", "p",
      "q", "r", "s", "t", "u", "v", "w", "x", "y", "z">>

ord(c) == CHOOSE k \in 1..Len(Alphabet) : Alphabet[k] = c

str_lower(s) ==
    [k \in 1..Len(s) |->
        IF ord(s[k]) >= ord("A") /\ ord(s[k]) <= ord("Z")
        THEN Alphabet[ord(s[k]) - ord("A") + ord("a")]
        ELSE s[k]]

str_startswith(s, prefix) ==
    Len(s) >= Len(prefix) /\ SubSeq(s, 1, Len(prefix)) = prefix

\* s < t for two strings
str_less(s, t) ==
    \E k \in 1..(Len(t)) :
        /\ \A l \in 1..(k - 1) : l <= Len(s) /\ s[l] = t[l]
        /\ (k > Len(s) \/ (k <= Len(s) /\ ord(s[k]) < ord(t[k])))
        /\ Len(s) >= k - 1

\* sorted(names) for a set of strings
RECURSIVE sorted(_)
sorted(names) ==
    IF names = {} THEN <<>>
    ELSE With([first \in {CHOOSE n \in names : \A o \in names \ {n} : str_less(n, o)} |->
             <<first>> \o sorted(names \ {first})])

\* the elements of a list, as a set
SetOf(lst) == {lst[k] : k \in 1..Len(lst)}

----------------------------------------------------------------------------
\* class ValencePart
\*
\* Angles are whole numbers of degrees: the comparisons of determine_mrv are
\* exact on them. as_float(d) is the float that holds an angle of d degrees.

deg == FDiv(FPi, FInt(180))
as_float(d) == FMul(FInt(d), deg)

determine_mrv(m, psi) ==
    With([per \in {360 \div m} |->
        With([val \in {psi % per} |->
        IF (val >= 0 /\ 6 * val <= per) \/ (6 * val >= 5 * per /\ val <= per)
        THEN [m |-> m, rv |-> 0]
        ELSE IF 6 * val >= 2 * per /\ 6 * val <= 4 * per
        THEN [m |-> m, rv |-> per \div 2]
        ELSE [m |-> -1, rv |-> 0]])])

\* the classification with the pair {2, 4} given the periodicity of {2, 3}
Mut_dihedral_mrv(n1, n2, psi0) ==
    IF {n1, n2} = {4, 4} THEN determine_mrv(3, psi0)
    ELSE IF {n1, n2} = {3, 4} THEN determine_mrv(6, psi0)
    ELSE IF {n1, n2} = {3, 3} THEN determine_mrv(2, psi0)
    ELSE IF {n1, n2} \in {{2, 3}, {2, 4}} THEN determine_mrv(2, psi0)
    ELSE IF {n1, n2} = {2, 2} THEN determine_mrv(1, psi0)
    ELSE [m |-> -1, rv |-> 0]

\* m, rv of one dihedral: n1 and n2 are the numbers of neighbours of its two
\* central atoms, psi0 is its absolute angle at the reference geometry
dihedral_mrv(n1, n2, psi0) ==
    IF {n1, n2} = {4, 4} THEN determine_mrv(3, psi0)
    ELSE IF {n1, n2} = {3, 4} THEN determine_mrv(6, psi0)
    ELSE IF {n1, n2} = {2, 4} THEN determine_mrv(3, psi0)
    ELSE IF {n1, n2} = {3, 3} THEN determine_mrv(2, psi0)
    ELSE IF {n1, n2} = {2, 3} THEN determine_mrv(2, psi0)
    ELSE IF {n1, n2} = {2, 2} THEN determine_mrv(1, psi0)
    ELSE [m |-> -1, rv |-> 0]

\* DataArray of integers: the sums of small integers are exact in a float
DataArray_of_ints(data, unit) ==
    LET n == Len(data)
        RECURSIVE S(_), Q(_)
        S(k) == IF k = 0 THEN 0 ELSE S(k - 1) + data[k]
        Q(k) == IF k = 0 THEN 0 ELSE Q(k - 1) + data[k] * data[k]
    IN  [data |-> data, unit |-> unit, mean |-> FRound(S(n), n, 0),
         std |-> FSqrt(FRound(n * Q(n) - S(n) * S(n), n * n, 0))]

\* DataArray of floats: mean = sum / n, std = sqrt(mean(|x - mean|**2))
DataArray(data, unit) ==
    With([n \in {Len(data)} |->
        With([mean \in {FDiv(FSum(data), FInt(n))} |->
        With([dev \in {[k \in 1..n |-> FPow(FSub(data[k], mean), 2)]} |->
        [data |-> data, unit |-> unit, mean |-> mean,
         std |-> FSqrt(FDiv(FSum(dev), FInt(n)))]])])])

HarmonicTerm(ic, coords, k, q0) ==
    [cls |-> "HarmonicTerm", ic |-> ic, k |-> k, q0 |-> q0]
CosineTerm(ic, coords, k, q0, A) ==
    [cls |-> "CosineTerm", ic |-> ic, k |-> k, q0 |-> q0, A |-> A]

TermListPot_init(terms) == [cls |-> "TermListPot", kind |-> "TermList", terms |-> terms]
ValencePart_init(tlpot) == [cls |-> "ValencePart", name |-> "FF Covalent", pot |-> tlpot]

\* the names an identifier stands for start with Prefix[g] when the
\* identifier, in lower case, is one of Keywords[g] or 'all'
Groups == <<"bond", "angle", "dihed", "opdist">>
Prefix ==
    [bond |-> <<"b", "o", "n", "d">>, angle |-> <<"a", "n", "g", "l", "e">>,
     dihed |-> <<"d", "i", "h", "e", "d">>, opdist |-> <<"o", "p", "d", "i", "s", "t">>]
Keywords ==
    [bond |-> {<<"b", "o", "n", "d", "s">>, <<"d", "i", "s", "t", "s">>,
               <<"l", "e", "n", "g", "t", "h", "s">>, <<"a", "l", "l">>},
     angle |-> {<<"b", "e", "n", "d", "s">>, <<"a", "n", "g", "l", "e", "s">>,
                <<"a", "l", "l">>},
     dihed |-> {<<"d", "i", "h", "e", "d", "s">>,
                <<"d", "i", "h", "e", "d", "r", "a", "l", "s">>, <<"a", "l", "l">>},
     opdist |-> {<<"o", "p", "d", "i", "s", "t", "s">>,
                 <<"o", "o", "p", "d", "i", "s", "t", "s">>, <<"a", "l", "l">>}]

\* the keywords compared with the identifier as it is written
RECURSIVE Mut_ValencePart_keyword_names(_, _, _)
Mut_ValencePart_keyword_names(system, identifier, g) ==
    IF g > Len(Groups) THEN <<>>
    ELSE (IF identifier \in Keywords[Groups[g]]
          THEN SelectSeq(sorted(DOMAIN system.ics),
                         LAMBDA icname : str_startswith(icname, Prefix[Groups[g]]))
          ELSE <<>>)
         \o Mut_ValencePart_keyword_names(system, identifier, g + 1)

\* the icnames one identifier appends, group after group
RECURSIVE ValencePart_keyword_names(_, _, _)
ValencePart_keyword_names(system, identifier, g) ==
    IF g > Len(Groups) THEN <<>>
    ELSE (IF str_lower(identifier) \in Keywords[Groups[g]]
          THEN SelectSeq(sorted(DOMAIN system.ics),
                         LAMBDA icname : str_startswith(icname, Prefix[Groups[g]]))
          ELSE <<>>)
         \o ValencePart_keyword_names(system, identifier, g + 1)

\* the loop over ic_ids: the list icnames, or the ValueError of the first
\* identifier that is neither a keyword nor a name of system.ics
RECURSIVE ValencePart_icnames(_, _, _, _)
ValencePart_icnames(system, ic_ids, k, icnames) ==
    IF k > Len(ic_ids) THEN [raise |-> "", icnames |-> icnames]
    ELSE With([identifier \in {ic_ids[k]} |->
             With([found \in {\E g \in 1..Len(Groups) :
                          str_lower(identifier) \in Keywords[Groups[g]]} |->
             With([more \in {icnames \o ValencePart_keyword_names(system, identifier, 1)} |->
             IF ~found /\ identifier \in DOMAIN system.ics
             THEN ValencePart_icnames(system, ic_ids, k + 1, Append(more, identifier))
             ELSE IF ~found
             THEN [raise |-> "ValueError", icnames |-> more]
             ELSE ValencePart_icnames(system, ic_ids, k + 1, more)])])])

ValencePart_from_system(system, ic_ids) ==
    With([r \in {ValencePart_icnames(system, ic_ids, 1, <<>>)} |->
        With([vterms \in {[icname \in SetOf(r.icnames) |->
                     [i \in 1..Len(system.ics[icname]) |->
                        IF str_startswith(icname, Prefix.dihed) THEN None
                        ELSE HarmonicTerm(system.ics[icname][i], system.ref.coords,
                                          None, None)]]} |->
        IF r.raise # "" THEN [raise |-> r.raise]
        ELSE [raise |-> "", part |-> ValencePart_init(TermListPot_init(vterms))]])])

\* ms, rvs and the DataArrays m and rv of one dihedral group; ic.psi is
\* ic.value(system.ref.coords)
ValencePart_dihedral_group(system, icname) ==
    With([ics \in {system.ics[icname]} |->
        With([mrv \in {[i \in 1..Len(ics) |->
                  dihedral_mrv(Len(system.nlist[ics[i].indexes[2] + 1]),
                               Len(system.nlist[ics[i].indexes[3] + 1]),
                               Abs(ics[i].psi))]} |->
        With([m \in {DataArray_of_ints([i \in 1..Len(ics) |-> mrv[i].m], "au")} |->
        With([rv \in {DataArray([i \in 1..Len(ics) |-> as_float(mrv[i].rv)], "deg")} |->
        [m |-> m, rv |-> rv,
         deleted |-> m.mean = FInt(-1) \/ FLess(FZero, m.std) \/ FLess(FZero, rv.std)]])])])])

\* determine_dihedral_potentials dropping the groups of a non-zero phase too
\* when marge2 is below 15 degrees
Mut_ValencePart_deleted_diheds(self, system, marge2, marge3) ==
    {icname \in DOMAIN self.pot.terms :
        /\ str_startswith(icname, Prefix.dihed)
        /\ \/ ValencePart_dihedral_group(system, icname).deleted
           \/ marge2 < 15 /\ ~FIsZero(ValencePart_dihedral_group(system, icname).rv.mean)}

\* deleted_diheds at the end of the loop over the groups; marge2 and marge3
\* are the angles in degrees that the caller gave
ValencePart_deleted_diheds(self, system, marge2, marge3) ==
    {icname \in DOMAIN self.pot.terms :
        /\ str_startswith(icname, Prefix.dihed)
        /\ ValencePart_dihedral_group(system, icname).deleted}

\* determine_dihedral_potentials with rv.mean and m.mean given to CosineTerm
\* in each other's place
Mut_ValencePart_determine_dihedral_potentials(self, system, marge2, marge3) ==
    With([diheds \in {{icname \in DOMAIN self.pot.terms : str_startswith(icname, Prefix.dihed)}} |->
        With([deleted_diheds \in {ValencePart_deleted_diheds(self, system, marge2, marge3)} |->
        With([terms \in {[icname \in (DOMAIN self.pot.terms) \ deleted_diheds |->
                    IF icname \in diheds
                    THEN [i \in 1..Len(self.pot.terms[icname]) |->
                            IF i <= Len(system.ics[icname])
                            THEN CosineTerm(system.ics[icname][i], system.ref.coords, FZero,
                                    ValencePart_dihedral_group(system, icname).m.mean,
                                    ValencePart_dihedral_group(system, icname).rv.mean)
                            ELSE self.pot.terms[icname][i]]
                    ELSE self.pot.terms[icname]]} |->
        [self |-> [self EXCEPT !.pot.terms = terms],
         system |-> system]])])])

\* The part and the system after determine_dihedral_potentials(system,
\* marge2, marge3).
ValencePart_determine_dihedral_potentials(self, system, marge2, marge3) ==
    With([diheds \in {{icname \in DOMAIN self.pot.terms : str_startswith(icname, Prefix.dihed)}} |->
        With([deleted_diheds \in {ValencePart_deleted_diheds(self, system, marge2, marge3)} |->
        With([ics \in {[icname \in DOMAIN system.ics |->
                  IF icname \in diheds \ deleted_diheds
                  THEN [i \in 1..Len(system.ics[icname]) |->
                          [system.ics[icname][i] EXCEPT !.icf = "dihed_angle",
                                                        !.qunit = "deg"]]
                  ELSE system.ics[icname]]} |->
        With([terms \in {[icname \in (DOMAIN self.pot.terms) \ deleted_diheds |->
                    IF icname \in diheds
                    THEN [i \in 1..Len(self.pot.terms[icname]) |->
                            IF i <= Len(ics[icname])
                            THEN CosineTerm(ics[icname][i], system.ref.coords, FZero,
                                    ValencePart_dihedral_group(system, icname).rv.mean,
                                    ValencePart_dihedral_group(system, icname).m.mean)
                            ELSE self.pot.terms[icname][i]]
                    ELSE self.pot.terms[icname]]} |->
        [self |-> [self EXCEPT !.pot.terms = terms],
         system |-> [system EXCEPT !.ics = ics]]])])])])

\* fftab[icname]
FFTable_getitem(fftab, icname) ==
    <<fftab.pars[icname].k.mean, fftab.pars[icname].q0.mean>>

\* update_fftable writing k only
RECURSIVE Mut_ValencePart_update_loop(_, _, _, _)
Mut_ValencePart_update_loop(self, fftab, n, i) ==
    With([names \in {sorted(DOMAIN self.pot.terms)} |->
        IF n > Len(names) THEN [self |-> self, raise |-> ""]
        ELSE IF names[n] \notin DOMAIN fftab.pars \/ i > Len(self.pot.terms[names[n]])
        THEN Mut_ValencePart_update_loop(self, fftab, n + 1, 1)
        ELSE IF self.pot.terms[names[n]][i] = None
        THEN [self |-> self, raise |-> "AttributeError"]
        ELSE Mut_ValencePart_update_loop(
                 [self EXCEPT !.pot.terms[names[n]][i].k = FFTable_getitem(fftab, names[n])[1]],
                 fftab, n, i + 1)])

\* The loop of update_fftable from the i-th term of the n-th sorted name on:
\* the part it leaves, and the exception that ended it.
RECURSIVE ValencePart_update_loop(_, _, _, _)
ValencePart_update_loop(self, fftab, n, i) ==
    With([names \in {sorted(DOMAIN self.pot.terms)} |->
        IF n > Len(names) THEN [self |-> self, raise |-> ""]
        ELSE IF names[n] \notin DOMAIN fftab.pars \/ i > Len(self.pot.terms[names[n]])
        THEN ValencePart_update_loop(self, fftab, n + 1, 1)
        ELSE IF self.pot.terms[names[n]][i] = None
        THEN [self |-> self, raise |-> "AttributeError"]
        ELSE ValencePart_update_loop(
                 [self EXCEPT !.pot.terms[names[n]][i].k = FFTable_getitem(fftab, names[n])[1],
                              !.pot.terms[names[n]][i].q0 = FFTable_getitem(fftab, names[n])[2]],
                 fftab, n, i + 1)])

ValencePart_update_fftable(self, fftab) == ValencePart_update_loop(self, fftab, 1, 1)

\* The statistics of a list of parameters: a list that holds None has none.
DataArray_of_pars(data, unit) ==
    IF \E k \in 1..Len(data) : data[k] = None
    THEN [raise |-> "TypeError"]
    ELSE [raise |-> ""] @@ DataArray(data, unit)

\* fftab.add(icname, k, q0) and fftab.add(icname, k, q0, m=m)
FFTable_add(fftab, icname, k, q0, m) ==
    [fftab EXCEPT !.pars = (icname :> (IF m = None THEN [k |-> k, q0 |-> q0]
                                       ELSE [k |-> k, q0 |-> q0, m |-> m])) @@ @]

\* get_fftable with the rest values collected as force constants too
RECURSIVE Mut_ValencePart_get_loop(_, _, _)
Mut_ValencePart_get_loop(self, fftab, n) ==
    With([names \in {sorted(DOMAIN self.pot.terms)} |->
        IF n > Len(names) THEN [raise |-> "", fftab |-> fftab]
        ELSE With([terms \in {self.pot.terms[names[n]]} |->
             IF \E i \in 1..Len(terms) : terms[i] = None
             THEN [raise |-> "AttributeError", fftab |-> fftab]
             ELSE With([q0 \in {DataArray_of_pars([i \in 1..Len(terms) |-> terms[i].q0],
                                                  terms[Len(terms)].ic.qunit)} |->
                  IF q0.raise # ""
                  THEN [raise |-> "TypeError", fftab |-> fftab]
                  ELSE Mut_ValencePart_get_loop(self,
                           FFTable_add(fftab, names[n], q0, q0, None), n + 1)])])])

\* The loop of get_fftable from the n-th sorted name on: the table, and the
\* exception that ended the loop.
RECURSIVE ValencePart_get_loop(_, _, _)
ValencePart_get_loop(self, fftab, n) ==
    With([names \in {sorted(DOMAIN self.pot.terms)} |->
        IF n > Len(names) THEN [raise |-> "", fftab |-> fftab]
        ELSE With([terms \in {self.pot.terms[names[n]]} |->
             IF \E i \in 1..Len(terms) : terms[i] = None
             THEN [raise |-> "AttributeError", fftab |-> fftab]
             ELSE With([term \in {terms[Len(terms)]} |->
                  With([k \in {DataArray_of_pars([i \in 1..Len(terms) |-> terms[i].k],
                                                 term.ic.kunit)} |->
                  With([q0 \in {DataArray_of_pars([i \in 1..Len(terms) |-> terms[i].q0],
                                                  term.ic.qunit)} |->
                  With([m \in {IF term.cls = "CosineTerm"
                               THEN DataArray_of_pars(
                                        SelectSeq([i \in 1..Len(terms) |->
                                                      IF terms[i].cls = "CosineTerm"
                                                      THEN terms[i].A ELSE None],
                                                  LAMBDA A : A # None), "au")
                               ELSE None} |->
                  IF k.raise # "" \/ q0.raise # ""
                  THEN [raise |-> "TypeError", fftab |-> fftab]
                  ELSE ValencePart_get_loop(self,
                           FFTable_add(fftab, names[n], k, q0, m), n + 1)])])])])])])

ValencePart_get_fftable(self) == ValencePart_get_loop(self, [pars |-> <<>>], 1)

\* update_fcs assigning the force constant of the group before
RECURSIVE Mut_ValencePart_update_fcs_loop(_, _, _, _)
Mut_ValencePart_update_fcs_loop(self, fcs, n, i) ==
    With([names \in {sorted(DOMAIN self.pot.terms)} |->
        IF n > Len(names) THEN [self |-> self, raise |-> ""]
        ELSE IF i > Len(self.pot.terms[names[n]])
        THEN Mut_ValencePart_update_fcs_loop(self, fcs, n + 1, 1)
        ELSE IF n > Len(fcs) THEN [self |-> self, raise |-> "IndexError"]
        ELSE IF self.pot.terms[names[n]][i] = None
        THEN [self |-> self, raise |-> "AttributeError"]
        ELSE Mut_ValencePart_update_fcs_loop(
                 [self EXCEPT !.pot.terms[names[n]][i].k = fcs[IF n > 1 THEN n - 1 ELSE n]],
                 fcs, n, i + 1)])

\* The loop of update_fcs from the i-th term of the n-th sorted name on;
\* fcs[n] is the element the code calls fcs[i], of index n - 1.
RECURSIVE ValencePart_update_fcs_loop(_, _, _, _)
ValencePart_update_fcs_loop(self, fcs, n, i) ==
    With([names \in {sorted(DOMAIN self.pot.terms)} |->
        IF n > Len(names) THEN [self |-> self, raise |-> ""]
        ELSE IF i > Len(self.pot.terms[names[n]])
        THEN ValencePart_update_fcs_loop(self, fcs, n + 1, 1)
        ELSE IF n > Len(fcs) THEN [self |-> self, raise |-> "IndexError"]
        ELSE IF self.pot.terms[names[n]][i] = None
        THEN [self |-> self, raise |-> "AttributeError"]
        ELSE ValencePart_update_fcs_loop(
                 [self EXCEPT !.pot.terms[names[n]][i].k = fcs[n]], fcs, n, i + 1)])

ValencePart_update_fcs(self, fcs) == ValencePart_update_fcs_loop(self, fcs, 1, 1)

ValencePart_nterms(self) == Cardinality(DOMAIN self.pot.terms)

\* what a float array holds after None has been assigned to an element
NaN == [nan |-> TRUE]

\* The loop of get_fcs: the array fcs, and the exception that ended the loop.
RECURSIVE ValencePart_get_fcs_loop(_, _, _, _)
ValencePart_get_fcs_loop(self, fcs, n, i) ==
    With([names \in {sorted(DOMAIN self.pot.terms)} |->
        IF n > Len(names) THEN [value |-> fcs, raise |-> ""]
        ELSE IF i > Len(self.pot.terms[names[n]])
        THEN ValencePart_get_fcs_loop(self, fcs, n + 1, 1)
        ELSE IF self.pot.terms[names[n]][i] = None
        THEN [value |-> fcs, raise |-> "AttributeError"]
        ELSE ValencePart_get_fcs_loop(self,
                 [fcs EXCEPT ![n] = IF self.pot.terms[names[n]][i].k = None THEN NaN
                                    ELSE self.pot.terms[names[n]][i].k],
                 n, i + 1)])

ValencePart_get_fcs(self) ==
    ValencePart_get_fcs_loop(self, [n \in 1..ValencePart_nterms(self) |-> FZero], 1, 1)

\* Inputs

MaxInstances == 3

\* the name of a coordinate of group g, such as 'bond/a'
icname_of(g, x) == Prefix[g] \o <<"/", x>>

IC(indexes, psi) ==
    [indexes |-> indexes, psi |-> psi, icf |-> "dihed_cos", kunit |-> "kjmol",
     qunit |-> "au"]

\* The dihedrals a group is drawn from. The atoms 0..6 have 4, 4, 3, 3, 2, 2
\* and 1 neighbours.
DihedralICs ==
    { IC(<<2, 0, 1, 3>>, 60), IC(<<3, 1, 0, 2>>, -180), IC(<<2, 0, 1, 3>>, 0),
      IC(<<0, 4, 5, 1>>, 180), IC(<<0, 6, 0, 1>>, 0) }

\* The system whose coordinates named 'dihed/a' are the given ones.
ValenceSystem(group) ==
    [ics |-> (icname_of("bond", "a") :> <<IC(<<0, 1>>, 0), IC(<<0, 2>>, 0)>>)
             @@ (icname_of("angle", "a") :> <<IC(<<1, 0, 2>>, 0)>>)
             @@ (icname_of("dihed", "a") :> group)
             @@ (icname_of("dihed", "b") :> <<IC(<<2, 0, 1, 3>>, 0)>>)
             @@ (icname_of("opdist", "a") :> <<IC(<<1, 2, 3, 0>>, 0)>>),
     nlist |-> << <<1, 2, 3, 6>>, <<0, 2, 3, 5>>, <<0, 1, 3>>, <<0, 1, 2>>,
                  <<5, 0>>, <<4, 1>>, <<0>> >>,
     ref |-> [coords |-> FArray(<<7, 3>>, [k \in 1..21 |-> k % 4])]]

IcIdLists ==
    { <<>>,
      << <<"a", "l", "l">> >>, << <<"A", "l", "l">> >>,
      << <<"b", "o", "n", "d", "s">> >>, << <<"D", "I", "S", "T", "S">> >>,
      << <<"l", "e", "n", "g", "t", "h", "s">> >>,
      << <<"b", "e", "n", "d", "s">> >>, << <<"a", "n", "g", "l", "e", "s">> >>,
      << <<"d", "i", "h", "e", "d", "s">> >>,
      << <<"d", "i", "h", "e", "d", "r", "a", "l", "s">> >>,
      << <<"o", "p", "d", "i", "s", "t", "s">> >>,
      << <<"o", "o", "p", "d", "i", "s", "t", "s">> >>,
      << icname_of("bond", "a") >>, << icname_of("dihed", "a") >>,
      << <<"b", "o", "n", "d", "s">>, icname_of("bond", "a") >>,
      << icname_of("dihed", "a"), icname_of("dihed", "a") >>,
      << <<"d", "i", "h", "e", "d", "s">>, <<"o", "p", "d", "i", "s", "t", "s">> >>,
      << icname_of("opdist", "a"), <<"b", "e", "n", "d", "s">> >>,
      << Prefix.bond >>, << <<"B", "o", "n", "d", "/", "a">> >>,
      << <<"b", "o", "n", "d", "s">>, <<"t", "o", "r", "s", "i", "o", "n">> >>,
      << <<"t", "o", "r", "s", "i", "o", "n">>, <<"b", "o", "n", "d", "s">> >>,
      << icname_of("angle", "a"), icname_of("bond", "z") >> }

\* the identifier lists that groups of several dihedrals are selected with
GroupIcIds == { << <<"a", "l", "l">> >>, << icname_of("dihed", "a") >> }

\* the table that holds k and q0 for the names given
FFTable_of(names, k, q0) ==
    [pars |-> [icname \in names |->
                 [k |-> DataArray(<<k>>, "au"), q0 |-> DataArray(<<q0>>, "au")]]]

FFTables ==
    { FFTable_of({icname_of("bond", "a"), icname_of("dihed", "a"),
                  icname_of("opdist", "a")}, FInt(2), FInt(1)),
      FFTable_of({icname_of("angle", "a"), icname_of("bond", "z")}, FInt(1), Half),
      FFTable_of({}, FInt(1), FInt(1)) }

\* The force field of a small system, as a fitting procedure handles it
MaxWrites == 1

FitGroups ==
    { <<IC(<<2, 0, 1, 3>>, 60), IC(<<3, 1, 0, 2>>, -180), IC(<<2, 0, 1, 3>>, 60)>>,
      <<IC(<<0, 4, 5, 1>>, 180)>>,
      <<IC(<<2, 0, 1, 3>>, 60), IC(<<2, 0, 1, 3>>, 0)>> }
FitIcIds ==
    { << <<"a", "l", "l">> >>, << <<"b", "o", "n", "d", "s">> >>,
      << icname_of("bond", "a"), icname_of("dihed", "a") >> }
WrittenPars == { <<FInt(3), Half>> }

\* the force constants 1, 2, ... of n groups
FcsOf(n) == { [i \in 1..n |-> FInt(i)] }

InitFit ==
    /\ focus = "fit"
    /\ pot = None
    /\ caller = None
    /\ ret = NoCall
    /\ heap = <<>>

\* marge2 and marge3 in degrees: the defaults, and other values
Margins == {<<15, 15>>, <<5, 30>>}

InitValence ==
    /\ focus = "valence"
    /\ pot = None
    /\ caller = None
    /\ ret = NoCall
    /\ heap = <<>>

\* The ValencePart the caller holds: the part itself or the val of a Model
ValPart == IF focus = "model" THEN pot.val ELSE pot
WithValPart(part) == IF focus = "model" THEN [pot EXCEPT !.val = part] ELSE part

\* ValencePart.from_system(system, ic_ids): on a ValueError there is no part
FromSystem ==
    /\ focus \in {"valence", "fit"}
    /\ pot = None /\ caller = None
    /\ \E n \in 1..MaxInstances : \E group \in [1..n -> DihedralICs], ic_ids \in IcIdLists :
          LET system == ValenceSystem(group)
              r == ValencePart_from_system(system, ic_ids)
          IN  /\ focus = "valence" => (Len(group) = 1 \/ ic_ids \in GroupIcIds)
              /\ focus = "fit" => (group \in FitGroups /\ ic_ids \in FitIcIds)
              /\ pot' = IF r.raise = "" THEN r.part ELSE None
              /\ caller' = [system |-> system, writes |-> 0]
              /\ ret' = [op |-> "from_system", ic_ids |-> ic_ids, raise |-> r.raise]
    /\ UNCHANGED <<focus, heap>>

DetermineDihedralPotentials ==
    /\ focus \in {"valence", "fit", "model"}
    /\ pot # None /\ ret = NoCall
    /\ \E marges \in Margins :
          LET marge2 == marges[1]
              marge3 == marges[2]
              r == ValencePart_determine_dihedral_potentials(ValPart, caller.system,
                                                            marge2, marge3)
          IN  /\ focus = "model" => marges = <<15, 15>>
              /\ pot' = WithValPart(r.self)
              /\ caller' = [caller EXCEPT !.system = r.system]
              /\ ret' = [op |-> "determine_dihedral_potentials", before |-> ValPart,
                         system |-> caller.system,
                         marge2 |-> marge2, marge3 |-> marge3]
    /\ UNCHANGED <<focus, heap>>

\* fftab is one of the tables above or, in part.update_fftable(part.get_fftable()),
\* the table get_fftable has returned
UpdateFFTable ==
    /\ focus \in {"valence", "fit", "model"}
    /\ pot # None /\ ret = NoCall
    /\ \E fftab \in (IF focus = "model"
                     THEN {FFTable_of(DOMAIN ValPart.pot.terms, FInt(2), FInt(1))}
                     ELSE FFTables) \cup
                    (IF focus = "fit" /\ ValencePart_get_fftable(pot).raise = ""
                     THEN {ValencePart_get_fftable(pot).fftab} ELSE {}) :
          LET r == ValencePart_update_fftable(ValPart, fftab)
          IN  /\ pot' = WithValPart(r.self)
              /\ ret' = [op |-> "update_fftable", fftab |-> fftab, before |-> ValPart,
                         raise |-> r.raise]
    /\ UNCHANGED <<focus, caller, heap>>

GetFFTable ==
    /\ focus = "fit"
    /\ pot # None /\ ret = NoCall
    /\ LET r == ValencePart_get_fftable(pot)
       IN  ret' = [op |-> "get_fftable", raise |-> r.raise,
                   value |-> IF r.raise = "" THEN r.fftab ELSE None]
    /\ UNCHANGED <<focus, pot, caller, heap>>

\* fcs holds one force constant per group of the part
UpdateFcs ==
    /\ focus = "fit"
    /\ pot # None /\ ret = NoCall
    /\ \E fcs \in FcsOf(ValencePart_nterms(pot)) :
          LET r == ValencePart_update_fcs(pot, fcs)
          IN  /\ pot' = r.self
              /\ ret' = [op |-> "update_fcs", fcs |-> fcs, before |-> pot,
                         raise |-> r.raise]
    /\ UNCHANGED <<focus, caller, heap>>

GetFcs ==
    /\ focus = "fit"
    /\ pot # None /\ ret = NoCall
    /\ LET r == ValencePart_get_fcs(pot)
       IN  ret' = [op |-> "get_fcs", raise |-> r.raise,
                   value |-> IF r.raise = "" THEN r.value ELSE None]
    /\ UNCHANGED <<focus, pot, caller, heap>>

\* Code outside the part assigns the k and q0 of one Term.
WriteTerm ==
    /\ focus = "fit"
    /\ pot # None /\ ret = NoCall
    /\ caller.writes < MaxWrites
    /\ \E icname \in DOMAIN pot.pot.terms :
       \E i \in 1..Len(pot.pot.terms[icname]), v \in WrittenPars :
          /\ pot.pot.terms[icname][i] # None
          /\ pot' = [pot EXCEPT !.pot.terms[icname][i].k = v[1],
                                !.pot.terms[icname][i].q0 = v[2]]
    /\ caller' = [caller EXCEPT !.writes = @ + 1]
    /\ UNCHANGED <<focus, ret, heap>>

NextFit ==
    \/ FromSystem \/ DetermineDihedralPotentials \/ UpdateFFTable \/ GetFFTable
    \/ UpdateFcs \/ GetFcs \/ WriteTerm \/ Return

SpecFit == InitFit /\ [][NextFit]_vars

NextValence == FromSystem \/ DetermineDihedralPotentials \/ UpdateFFTable \/ Return

SpecValence == InitValence /\ [][NextValence]_vars

\* the dihedral groups of a part, and the (m, rv) of the instances of one
DihedNames(part) ==
    {icname \in DOMAIN part.pot.terms : str_startswith(icname, Prefix.dihed)}
InstanceMrv(system, icname) ==
    [i \in 1..Len(system.ics[icname]) |->
        dihedral_mrv(Len(system.nlist[system.ics[icname][i].indexes[2] + 1]),
                     Len(system.nlist[system.ics[icname][i].indexes[3] + 1]),
                     Abs(system.ics[icname][i].psi))]
Unclear(mrv) ==
    \/ \E i \in DOMAIN mrv : mrv[i].m = -1
    \/ \E i, j \in DOMAIN mrv : mrv[i].m # mrv[j].m \/ mrv[i].rv # mrv[j].rv

\* C7: after determine_dihedral_potentials a dihedral group with at least one
\* instance is absent from the part's terms if and only if one of its
\* instances is invalid (m = -1), or the m of its instances are not all
\* equal, or the phases of its instances are not all equal.
C7_GroupDroppedIff ==
    (focus = "valence" /\ ret.op = "determine_dihedral_potentials") =>
        \A icname \in DihedNames(ret.before) :
            Len(caller.system.ics[icname]) >= 1 =>
                (icname \notin DOMAIN pot.pot.terms
                    <=> Unclear(InstanceMrv(caller.system, icname)))

\* C19: two runs of determine_dihedral_potentials on the same part and system
\* that differ only in marge2 and marge3 keep and drop the same groups and
\* give every kept instance the same m and phase.
C19_MarginsInert ==
    (focus = "valence" /\ ret.op = "determine_dihedral_potentials") =>
        \A marges \in Margins :
            ValencePart_determine_dihedral_potentials(
                ret.before, ret.system, marges[1], marges[2]).self = pot

\* A run with marge2 = 5 and marge3 = 30 degrees has kept a group of two dihedrals
\* with a phase of 60 degrees and dropped none.
C19_Witness ==
    /\ focus = "valence" /\ ret.op = "determine_dihedral_potentials"
    /\ ret.marge2 = 5 /\ ret.marge3 = 30
    /\ DihedNames(pot) = DihedNames(ret.before)
    /\ icname_of("dihed", "a") \in DihedNames(pot)
    /\ Len(pot.pot.terms[icname_of("dihed", "a")]) = 2
    /\ ret.before.pot.terms[icname_of("dihed", "a")][1] = None
    /\ pot.pot.terms[icname_of("dihed", "a")][1].q0 = as_float(60)

\* C8 as stated: every instance of a kept dihedral group becomes a cosine
\* Term with the group's m and phase whose force constant is None.
C8_KeptGroupHasUnsetK ==
    (focus = "valence" /\ ret.op = "determine_dihedral_potentials") =>
        \A icname \in DihedNames(pot) : \A i \in 1..Len(pot.pot.terms[icname]) :
            LET mrv == InstanceMrv(caller.system, icname)
                term == pot.pot.terms[icname][i]
            IN  /\ term.cls = "CosineTerm"
                /\ term.A = FInt(mrv[1].m) /\ term.q0 = as_float(mrv[1].rv)
                /\ term.k = None

\* C8 as amended: every instance of a kept dihedral group becomes a cosine
\* Term with the group's m and phase whose force constant is the float 0.0.
C8_KeptGroupHasZeroK ==
    (focus = "valence" /\ ret.op = "determine_dihedral_potentials") =>
        \A icname \in DihedNames(pot) : \A i \in 1..Len(pot.pot.terms[icname]) :
            LET mrv == InstanceMrv(caller.system, icname)
                term == pot.pot.terms[icname][i]
            IN  /\ term.cls = "CosineTerm"
                /\ term.A = FInt(mrv[1].m) /\ term.q0 = as_float(mrv[1].rv)
                /\ term.k = FZero

\* A group of two dihedrals at 60 and -180 degrees between atoms of four
\* neighbours has been kept, with m = 3 and a phase of 60 degrees.
C8_Witness ==
    /\ focus = "valence" /\ ret.op = "determine_dihedral_potentials"
    /\ icname_of("dihed", "a") \in DOMAIN pot.pot.terms
    /\ Len(pot.pot.terms[icname_of("dihed", "a")]) = 2
    /\ pot.pot.terms[icname_of("dihed", "a")][2].A = FInt(3)
    /\ pot.pot.terms[icname_of("dihed", "a")][2].q0 = as_float(60)
    /\ ret.before.pot.terms[icname_of("dihed", "a")][2] = None

\* the identifiers that are keywords, and the names a list of identifiers selects
IsKeyword(identifier) ==
    \E g \in DOMAIN Keywords : str_lower(identifier) \in Keywords[g]
Selected(system, ic_ids) ==
    {icname \in DOMAIN system.ics :
        \E k \in 1..Len(ic_ids) :
            \/ \E g \in DOMAIN Keywords :
                  /\ str_lower(ic_ids[k]) \in Keywords[g]
                  /\ str_startswith(icname, Prefix[g])
            \/ ~IsKeyword(ic_ids[k]) /\ ic_ids[k] = icname}

\* C9: from_system(system, ic_ids) returns a part whose groups are exactly
\* the names the identifiers select (by keyword, in any letter case, or by
\* being a name of the system), each once, with one Term slot per instance;
\* when an identifier is neither a keyword nor a name of the system the call
\* raises ValueError and returns no part.
C9_FromSystemGroups ==
    (focus = "valence" /\ ret.op = "from_system") =>
        IF \A k \in 1..Len(ret.ic_ids) :
              IsKeyword(ret.ic_ids[k]) \/ ret.ic_ids[k] \in DOMAIN caller.system.ics
        THEN /\ ret.raise = "" /\ pot # None
             /\ DOMAIN pot.pot.terms = Selected(caller.system, ret.ic_ids)
             /\ \A icname \in DOMAIN pot.pot.terms :
                   Len(pot.pot.terms[icname]) = Len(caller.system.ics[icname])
        ELSE ret.raise = "ValueError" /\ pot = None

\* 'DISTS' has selected the bond group, and nothing else.
C9_Witness ==
    /\ focus = "valence" /\ ret.op = "from_system"
    /\ ret.ic_ids = << <<"D", "I", "S", "T", "S">> >>
    /\ pot # None /\ DOMAIN pot.pot.terms = {icname_of("bond", "a")}
    /\ Len(pot.pot.terms[icname_of("bond", "a")]) = 2

\* the k and q0 of a Term slot; a placeholder has neither
Pars(term) == IF term = None THEN None ELSE <<term.k, term.q0>>

\* C10 as stated: update_fftable(table) sets the (k, q0) of every Term of
\* every name present in the part and in the table to the table's values,
\* leaves the Terms of every other name as they were, and leaves the set of
\* groups and the number of Terms per group as they were.
C10_UpdateFFTable ==
    (focus = "valence" /\ ret.op = "update_fftable") =>
        /\ ret.raise = ""
        /\ DOMAIN pot.pot.terms = DOMAIN ret.before.pot.terms
        /\ \A icname \in DOMAIN pot.pot.terms :
              /\ Len(pot.pot.terms[icname]) = Len(ret.before.pot.terms[icname])
              /\ \A i \in 1..Len(pot.pot.terms[icname]) :
                    IF icname \in DOMAIN ret.fftab.pars
                    THEN Pars(pot.pot.terms[icname][i]) = FFTable_getitem(ret.fftab, icname)
                    ELSE pot.pot.terms[icname][i] = ret.before.pot.terms[icname][i]

\* the names of the part and of the table one of whose slots is a placeholder
Unset(part, fftab) ==
    {icname \in DOMAIN part.pot.terms \cap DOMAIN fftab.pars :
        \E i \in 1..Len(part.pot.terms[icname]) : part.pot.terms[icname][i] = None}

\* C10 as amended: when no group named in the table holds a placeholder the
\* statement above holds; otherwise the call raises AttributeError, having
\* updated the names sorted before the first such group and nothing else.
\* The groups and the numbers of Terms are unchanged in both cases.
C10_UpdateFFTableOfTerms ==
    (focus = "valence" /\ ret.op = "update_fftable") =>
        /\ ret.raise = (IF Unset(ret.before, ret.fftab) = {} THEN "" ELSE "AttributeError")
        /\ DOMAIN pot.pot.terms = DOMAIN ret.before.pot.terms
        /\ \A icname \in DOMAIN pot.pot.terms :
              /\ Len(pot.pot.terms[icname]) = Len(ret.before.pot.terms[icname])
              /\ \A i \in 1..Len(pot.pot.terms[icname]) :
                    IF /\ icname \in DOMAIN ret.fftab.pars
                       /\ \A u \in Unset(ret.before, ret.fftab) : str_less(icname, u)
                    THEN Pars(pot.pot.terms[icname][i]) = FFTable_getitem(ret.fftab, icname)
                    ELSE pot.pot.terms[icname][i] = ret.before.pot.terms[icname][i]

\* The two bond Terms have been given k = 2 and q0 = 1 by a table that also
\* names a dihedral group of cosine Terms.
C10_Witness ==
    /\ focus = "valence" /\ ret.op = "update_fftable" /\ ret.raise = ""
    /\ icname_of("dihed", "a") \in DOMAIN pot.pot.terms \cap DOMAIN ret.fftab.pars
    /\ ret.before.pot.terms[icname_of("bond", "a")][2].k = None
    /\ pot.pot.terms[icname_of("bond", "a")][2].k = FInt(2)
    /\ pot.pot.terms[icname_of("bond", "a")][2].q0 = FInt(1)
    /\ pot.pot.terms[icname_of("dihed", "a")][1].k = FInt(2)

\* a part all of whose slots hold Terms whose k and q0 are numbers
Numeric(part) ==
    \A icname \in DOMAIN part.pot.terms : \A i \in 1..Len(part.pot.terms[icname]) :
        /\ part.pot.terms[icname][i] # None
        /\ part.pot.terms[icname][i].k # None
        /\ part.pot.terms[icname][i].q0 # None

\* part.update_fftable(part.get_fftable()) has returned
RoundTrip ==
    /\ focus = "fit" /\ ret.op = "update_fftable"
    /\ Numeric(ret.before)
    /\ ret.fftab = ValencePart_get_fftable(ret.before).fftab

\* the mean of a list of floats
MeanOf(data) == FDiv(FSum(data), FInt(Len(data)))

\* C11 as stated: part.update_fftable(part.get_fftable()) leaves the k and q0
\* of every Term unchanged, also when Terms of one name hold different
\* parameters.
C11_RoundTripUnchanged ==
    RoundTrip => pot = ret.before

\* C11 as amended: part.update_fftable(part.get_fftable()) sets the k and the
\* q0 of every Term to the mean of the k and the mean of the q0 of the Terms
\* sharing its name and changes nothing else; the only Term of a name keeps
\* its parameters.
C11_RoundTripSetsMeans ==
    RoundTrip =>
        /\ ValencePart_get_fftable(ret.before).raise = "" /\ ret.raise = ""
        /\ DOMAIN pot.pot.terms = DOMAIN ret.before.pot.terms
        /\ \A icname \in DOMAIN pot.pot.terms :
              LET old == ret.before.pot.terms[icname]
                  new == pot.pot.terms[icname]
              IN  /\ Len(new) = Len(old)
                  /\ \A i \in 1..Len(new) :
                        new[i] = [old[i] EXCEPT
                                    !.k = MeanOf([j \in 1..Len(old) |-> old[j].k]),
                                    !.q0 = MeanOf([j \in 1..Len(old) |-> old[j].q0])]
                  /\ Len(old) = 1 => new = old

\* Two bond Terms that held (k, q0) = (3, 1/2) and (2, 1) have both been given
\* (5/2, 3/4) by the round trip.
C11_Witness ==
    /\ RoundTrip
    /\ Pars(ret.before.pot.terms[icname_of("bond", "a")][1]) = <<FInt(3), Half>>
    /\ Pars(ret.before.pot.terms[icname_of("bond", "a")][2]) = <<FInt(2), FInt(1)>>
    /\ Pars(pot.pot.terms[icname_of("bond", "a")][1]) = <<FRound(5, 2, 0), FRound(3, 4, 0)>>
    /\ Pars(pot.pot.terms[icname_of("bond", "a")][2]) = <<FRound(5, 2, 0), FRound(3, 4, 0)>>

\* the place of a name among the sorted names of a part, from 1
PlaceOf(part, icname) ==
    1 + Cardinality({o \in DOMAIN part.pot.terms : str_less(o, icname)})

\* the groups of a part one of whose slots is a placeholder
Placeholders(part) ==
    {icname \in DOMAIN part.pot.terms :
        \E i \in 1..Len(part.pot.terms[icname]) : part.pot.terms[icname][i] = None}

----------------------------------------------------------------------------
\* class ZeroPot

ZeroPot_init == [cls |-> "ZeroPot", kind |-> "Zero"]
ZeroPot_calc_energy(self, coords) == FZero
ZeroPot_calc_gradient(self, coords) == np_zeros(<<np_len(coords), 3>>)
\* calc_hessian returning an array of 3N x 3 elements
Mut_ZeroPot_calc_hessian(self, coords) == np_zeros(<<np_len(coords), 3, 3>>)
ZeroPot_calc_hessian(self, coords) ==
    np_zeros(<<np_len(coords), 3, np_len(coords), 3>>)

----------------------------------------------------------------------------
\* class TermListPot
\*
\* Term.calc_energy, calc_gradient and calc_hessian are not code of this
\* module: a Term whose k or q0 is None cannot be evaluated, and what a Term
\* adds to the sum is left open. The result of a TermListPot names the Terms
\* that were added, in the order of the loop.

Term_calc(term, coords) ==
    IF term.k = None \/ term.q0 = None THEN [raise |-> "TypeError"]
    ELSE [raise |-> ""]

\* the loops passing over a placeholder
RECURSIVE Mut_TermListPot_loop(_, _, _, _, _)
Mut_TermListPot_loop(self, coords, n, i, acc) ==
    With([names \in {sorted(DOMAIN self.terms)} |->
        IF n > Len(names) THEN [raise |-> "", terms |-> acc]
        ELSE IF i > Len(self.terms[names[n]])
        THEN Mut_TermListPot_loop(self, coords, n + 1, 1, acc)
        ELSE IF self.terms[names[n]][i] = None
        THEN Mut_TermListPot_loop(self, coords, n, i + 1, acc)
        ELSE IF Term_calc(self.terms[names[n]][i], coords).raise # ""
        THEN [raise |-> Term_calc(self.terms[names[n]][i], coords).raise, terms |-> acc]
        ELSE Mut_TermListPot_loop(self, coords, n, i + 1, Append(acc, <<names[n], i>>))])

\* The loops of calc_energy, calc_gradient and calc_hessian over
\* sorted(self.terms.iteritems()): a placeholder has no calc_* attribute.
RECURSIVE TermListPot_loop(_, _, _, _, _)
TermListPot_loop(self, coords, n, i, acc) ==
    With([names \in {sorted(DOMAIN self.terms)} |->
        IF n > Len(names) THEN [raise |-> "", terms |-> acc]
        ELSE IF i > Len(self.terms[names[n]])
        THEN TermListPot_loop(self, coords, n + 1, 1, acc)
        ELSE IF self.terms[names[n]][i] = None
        THEN [raise |-> "AttributeError", terms |-> acc]
        ELSE IF Term_calc(self.terms[names[n]][i], coords).raise # ""
        THEN [raise |-> Term_calc(self.terms[names[n]][i], coords).raise, terms |-> acc]
        ELSE TermListPot_loop(self, coords, n, i + 1, Append(acc, <<names[n], i>>))])

TermListPot_calc_energy(self, coords) ==
    With([r \in {TermListPot_loop(self, coords, 1, 1, <<>>)} |->
        [raise |-> r.raise, value |-> [shape |-> <<>>, terms |-> r.terms]]])

TermListPot_calc_gradient(self, coords) ==
    With([r \in {TermListPot_loop(self, coords, 1, 1, <<>>)} |->
        [raise |-> r.raise,
         value |-> [shape |-> <<np_len(coords), 3>>, terms |-> r.terms]]])

TermListPot_calc_hessian(self, coords) ==
    With([r \in {TermListPot_loop(self, coords, 1, 1, <<>>)} |->
        [raise |-> r.raise,
         value |-> [shape |-> <<np_len(coords), 3, np_len(coords), 3>>,
                    terms |-> r.terms]]])

----------------------------------------------------------------------------
\* The parts of a Model

AIPart_init(p, project) ==
    [cls |-> "AIPart", name |-> "AI Total", pot |-> p, project |-> project]
EIPart_init(p, scales) ==
    [cls |-> "EIPart", name |-> "FF Electrostatic", pot |-> p, scales |-> scales]
VDWPart_init(p, scales) ==
    [cls |-> "VDWPart", name |-> "FF van der Waals", pot |-> p, scales |-> scales]
NonbondedYaffPart_init(p) ==
    [cls |-> "NonbondedYaffPart", name |-> "Nonbonded Yaff",
     pot |-> IF p = None THEN ZeroPot_init ELSE p]

\* HarmonicPot(kind, coords0, energy0, grad0, hess0) for arrays that the
\* caller has just made and does not keep: of the heap h and these arrays,
\* the objects that remain are those of h and the three copies of __init__
HarmonicPot_new(h, kind, coords0, energy0, grad0, hess0) ==
    With([new \in {HarmonicPot_init(<<coords0, grad0, hess0>>, kind, 1, energy0, 2, 3)} |->
        [heap |-> h \o SubSeq(new.heap, 4, 6),
         self |-> [new.self EXCEPT !.coords0 = Len(h) + 1, !.grad0 = Len(h) + 2,
                                   !.hess0 = Len(h) + 3]]])

AIPart_from_system(h, system, project) ==
    With([new \in {HarmonicPot_new(h, "AbInitio", system.ref.coords, FZero, system.ref.grad,
                       IF project THEN system.ref.phess ELSE system.ref.hess)} |->
        [heap |-> new.heap, part |-> AIPart_init(new.self, project)]])

\* scaled_pairs: the ends of the bonds, bends and dihedrals of the system
Part_scaled_pairs(system) ==
    << [k \in 1..Len(system.bonds) |-> <<system.bonds[k][1], system.bonds[k][2]>>],
       [k \in 1..Len(system.bends) |-> <<system.bends[k][1], system.bends[k][3]>>],
       [k \in 1..Len(system.diheds) |-> <<system.diheds[k][1], system.diheds[k][4]>>] >>

\* The exact potential of an EIPart is a CoulPointPot or a CoulGaussPot
EIPot_calc_gradient(exact, coords) ==
    IF exact.cls = "CoulPointPot" THEN CoulPointPot_calc_gradient(exact, coords).value
    ELSE CoulGaussPot_calc_gradient(exact, coords).value
EIPot_calc_hessian(exact, coords) ==
    IF exact.cls = "CoulPointPot" THEN CoulPointPot_calc_hessian(exact, coords).value
    ELSE CoulGaussPot_calc_hessian(exact, coords).value

\* The harmonic branch of EIPart.from_system: the second order expansion of
\* the potential exact around the reference geometry of the system
Mut_EIPart_harmonic(h, exact, system) ==
    HarmonicPot_new(h, exact.kind, system.ref.coords, FZero,
                    EIPot_calc_gradient(exact, system.moved),
                    EIPot_calc_hessian(exact, system.ref.coords))
EIPart_harmonic(h, exact, system) ==
    HarmonicPot_new(h, exact.kind, system.ref.coords, FZero,
                    EIPot_calc_gradient(exact, system.ref.coords),
                    EIPot_calc_hessian(exact, system.ref.coords))

\* The exact potential of a VDWPart is a LennardJonesPot or a MM3BuckinghamPot
VDWPot_calc_gradient(exact, coords) ==
    IF exact.cls = "LennardJonesPot" THEN LennardJonesPot_calc_gradient(exact, coords).value
    ELSE MM3BuckinghamPot_calc_gradient(exact, coords).value
VDWPot_calc_hessian(exact, coords) ==
    IF exact.cls = "LennardJonesPot" THEN LennardJonesPot_calc_hessian(exact, coords).value
    ELSE MM3BuckinghamPot_calc_hessian(exact, coords).value

\* The harmonic branch of VDWPart.from_system
VDWPart_harmonic(h, exact, system) ==
    HarmonicPot_new(h, exact.kind, system.ref.coords, FZero,
                    VDWPot_calc_gradient(exact, system.ref.coords),
                    VDWPot_calc_hessian(exact, system.ref.coords))

str_zero == <<"z", "e", "r", "o">>
str_coulpoint == <<"c", "o", "u", "l", "p", "o", "i", "n", "t">>
str_harmpoint == <<"h", "a", "r", "m", "p", "o", "i", "n", "t">>
str_coulgauss == <<"c", "o", "u", "l", "g", "a", "u", "s", "s">>
str_harmgauss == <<"h", "a", "r", "m", "g", "a", "u", "s", "s">>
str_lj == <<"l", "j">>
str_harmlj == <<"h", "a", "r", "m", "l", "j">>
str_mm3 == <<"m", "m", "3">>
str_harmmm3 == <<"h", "a", "r", "m", "m", "m", "3">>

\* EIPart.from_system comparing pot_kind as it is given
Mut_EIPart_from_system(h, system, scales, pot_kind) ==
    IF pot_kind = str_zero
    THEN [raise |-> "", heap |-> h, part |-> EIPart_init(ZeroPot_init, scales)]
    ELSE IF str_lower(pot_kind) \notin {str_coulpoint, str_harmpoint, str_coulgauss,
                                        str_harmgauss, str_zero}
    THEN [raise |-> "ValueError", heap |-> h]
    ELSE [raise |-> "", heap |-> h,
          part |-> EIPart_init([cls |-> "CoulPointPot"]
                                   @@ CoulPointPot_init(system.charges, scales,
                                          Part_scaled_pairs(system), system.ref.coords),
                               scales)]

EIPart_from_system(h, system, scales, pot_kind) ==
    With([kind \in {str_lower(pot_kind)} |->
        IF kind = str_zero
        THEN [raise |-> "", heap |-> h, part |-> EIPart_init(ZeroPot_init, scales)]
        ELSE IF kind \notin {str_coulpoint, str_harmpoint, str_coulgauss, str_harmgauss}
        THEN [raise |-> "ValueError", heap |-> h]
        ELSE With([exact \in {IF kind \in {str_coulpoint, str_harmpoint}
                              THEN [cls |-> "CoulPointPot"]
                                   @@ CoulPointPot_init(system.charges, scales,
                                          Part_scaled_pairs(system), system.ref.coords)
                              ELSE [cls |-> "CoulGaussPot"]
                                   @@ CoulGaussPot_init(system.charges, system.radii, scales,
                                          Part_scaled_pairs(system), system.ref.coords)} |->
                 IF kind \in {str_harmpoint, str_harmgauss}
                 THEN With([new \in {EIPart_harmonic(h, exact, system)} |->
                          [raise |-> "", heap |-> new.heap,
                           part |-> EIPart_init(new.self, scales)]])
                 ELSE [raise |-> "", heap |-> h, part |-> EIPart_init(exact, scales)]])])

\* No branch of VDWPart.from_system raises for a kind that is not known: the
\* name exact is not bound when the assert statement is reached, and is read
\* right after it when the interpreter runs with -O, which strips the assert.
VDWPart_from_system(h, system, scales, pot_kind, optimize) ==
    With([kind \in {str_lower(pot_kind)} |->
        IF kind = str_zero
        THEN [raise |-> "", heap |-> h, part |-> VDWPart_init(ZeroPot_init, scales)]
        ELSE IF kind \notin {str_lj, str_harmlj, str_mm3, str_harmmm3}
        THEN [raise |-> IF optimize THEN "UnboundLocalError" ELSE "AssertionError",
              heap |-> h]
        ELSE With([exact \in {IF kind \in {str_lj, str_harmlj}
                              THEN [cls |-> "LennardJonesPot"]
                                   @@ LennardJonesPot_init(system.sigmas, system.epsilons,
                                          scales, Part_scaled_pairs(system),
                                          system.ref.coords)
                              ELSE [cls |-> "MM3BuckinghamPot"]
                                   @@ MM3BuckinghamPot_init(system.sigmas, system.epsilons,
                                          scales, Part_scaled_pairs(system),
                                          system.ref.coords)} |->
                 IF kind \in {str_harmlj, str_harmmm3}
                 THEN With([new \in {VDWPart_harmonic(h, exact, system)} |->
                          [raise |-> "", heap |-> new.heap,
                           part |-> VDWPart_init(new.self, scales)]])
                 ELSE [raise |-> "", heap |-> h, part |-> VDWPart_init(exact, scales)]])])

----------------------------------------------------------------------------
\* class Model

Model_init(ai, val, ei, vdw, nbyaff) ==
    [cls |-> "Model", ai |-> ai, val |-> val, ei |-> ei, vdw |-> vdw,
     nbyaff |-> IF nbyaff = None THEN NonbondedYaffPart_init(None) ELSE nbyaff]

\* from_system making the van der Waals part before the electrostatic part
Mut_Model_from_system(h, system, ai_project, ic_ids, ei_scales, ei_pot_kind, vdw_scales, vdw_pot_kind, optimize) ==
    With([ai \in {AIPart_from_system(h, system, ai_project)} |->
        With([vdw \in {VDWPart_from_system(ai.heap, system, vdw_scales,
                                           vdw_pot_kind, optimize)} |->
        IF vdw.raise # "" THEN [raise |-> vdw.raise, heap |-> h, made |-> <<"ai">>]
        ELSE With([ei \in {EIPart_from_system(vdw.heap, system, ei_scales, ei_pot_kind)} |->
        IF ei.raise # "" THEN [raise |-> ei.raise, heap |-> h, made |-> <<"ai", "vdw">>]
        ELSE With([val \in {ValencePart_from_system(system, ic_ids)} |->
        IF val.raise # ""
        THEN [raise |-> val.raise, heap |-> h, made |-> <<"ai", "vdw", "ei">>]
        ELSE [raise |-> "", heap |-> ei.heap, made |-> <<"ai", "vdw", "ei", "val">>,
              self |-> Model_init(ai.part, val.part, ei.part, vdw.part, None)]])])])])

\* Model.from_system: the parts are made in the order ai, ei, vdw, val, and
\* the first exception ends the call; made lists the parts that were made
Model_from_system(h, system, ai_project, ic_ids, ei_scales, ei_pot_kind, vdw_scales, vdw_pot_kind, optimize) ==
    With([ai \in {AIPart_from_system(h, system, ai_project)} |->
        With([ei \in {EIPart_from_system(ai.heap, system, ei_scales, ei_pot_kind)} |->
        IF ei.raise # "" THEN [raise |-> ei.raise, heap |-> h, made |-> <<"ai">>]
        ELSE With([vdw \in {VDWPart_from_system(ei.heap, system, vdw_scales,
                                                vdw_pot_kind, optimize)} |->
        IF vdw.raise # "" THEN [raise |-> vdw.raise, heap |-> h, made |-> <<"ai", "ei">>]
        ELSE With([val \in {ValencePart_from_system(system, ic_ids)} |->
        IF val.raise # ""
        THEN [raise |-> val.raise, heap |-> h, made |-> <<"ai", "ei", "vdw">>]
        ELSE [raise |-> "", heap |-> vdw.heap, made |-> <<"ai", "ei", "vdw", "val">>,
              self |-> Model_init(ai.part, val.part, ei.part, vdw.part, None)]])])])])

\* The default values of the optional arguments of Model.from_system
str_Harmonic == <<"H", "a", "r", "m", "o", "n", "i", "c">>
DefaultArguments(system, optimize) ==
    [system |-> system, ai_project |-> TRUE, ic_ids |-> << <<"a", "l", "l">> >>,
     ei_scales |-> <<FZero, FZero, FInt(1)>>, ei_pot_kind |-> str_Harmonic,
     vdw_scales |-> <<FZero, FZero, FInt(1)>>, vdw_pot_kind |-> str_Harmonic,
     optimize |-> optimize]

\* BasePart.calc_energy, calc_gradient and calc_hessian: self.pot.calc_*
BasePart_calc_energy(h, self, coords) ==
    CASE self.pot.cls = "ZeroPot" ->
            [raise |-> "", value |-> ZeroPot_calc_energy(self.pot, coords)]
      [] self.pot.cls = "HarmonicPot" ->
            [raise |-> "", value |-> HarmonicPot_calc_energy(h, self.pot, coords)]
      [] self.pot.cls = "TermListPot" -> TermListPot_calc_energy(self.pot, coords)
      [] OTHER -> [raise |-> "", value |-> PairPot_calc_energy(self.pot, coords).value]

BasePart_calc_gradient(h, self, coords) ==
    CASE self.pot.cls = "ZeroPot" ->
            [raise |-> "", value |-> ZeroPot_calc_gradient(self.pot, coords)]
      [] self.pot.cls = "HarmonicPot" ->
            [raise |-> "", value |-> HarmonicPot_calc_gradient(h, self.pot, coords)]
      [] self.pot.cls = "TermListPot" -> TermListPot_calc_gradient(self.pot, coords)
      [] OTHER -> [raise |-> "", value |-> PairPot_calc_gradient(self.pot, coords).value]

BasePart_calc_hessian(h, self, coords) ==
    CASE self.pot.cls = "ZeroPot" ->
            [raise |-> "", value |-> ZeroPot_calc_hessian(self.pot, coords)]
      [] self.pot.cls = "HarmonicPot" ->
            [raise |-> "", value |-> h[HarmonicPot_calc_hessian(h, self.pot, coords)]]
      [] self.pot.cls = "TermListPot" -> TermListPot_calc_hessian(self.pot, coords)
      [] OTHER -> [raise |-> "", value |-> PairPot_calc_hessian(self.pot, coords).value]

----------------------------------------------------------------------------
\* A Model of a small system

\* The systems a Model is built from: a molecule of two atoms and a chain of
\* four atoms, with the groups of internal coordinates of the chain.
\* ref.grad has 3N elements and ref.hess and ref.phess 3N x 3N, the shapes
\* HarmonicPot.calc_gradient adds without an error.
Diatomic ==
    [charges |-> FList(<<1, -1>>), radii |-> FList(<<1, 1>>),
     sigmas |-> FList(<<2, 2>>), epsilons |-> FList(<<1, 1>>),
     bonds |-> << <<0, 1>> >>, bends |-> <<>>, diheds |-> <<>>,
     ics |-> (icname_of("bond", "a") :> <<IC(<<0, 1>>, 0)>>),
     nlist |-> << <<1>>, <<0>> >>,
     ref |-> [coords |-> FArray(<<2, 3>>, <<0, 0, 0, 1, 0, 0>>),
              grad |-> FArray(<<6>>, <<1, 0, -1, 0, 2, 0>>),
              hess |-> FArray(<<6, 6>>, [k \in 1..36 |->
                          IF (k - 1) \div 6 = (k - 1) % 6 THEN 2
                          ELSE IF Abs(((k - 1) \div 6) - ((k - 1) % 6)) = 1 THEN -1
                          ELSE 0]),
              phess |-> FArray(<<6, 6>>, [k \in 1..36 |->
                          IF (k - 1) \div 6 = (k - 1) % 6 THEN 1 ELSE 0])],
     moved |-> FArray(<<2, 3>>, <<0, 0, 0, 1, 2, 2>>)]

\* the chain 0-1-2-3 whose last atom is at xyz, the dihedral being psi degrees
ChainOf(xyz, psi) ==
    [charges |-> FList(<<1, -1, 1, -1>>), radii |-> FList(<<1, 2, 2, 1>>),
     sigmas |-> FList(<<2, 3, 3, 2>>), epsilons |-> FList(<<1, 2, 2, 1>>),
     bonds |-> << <<0, 1>>, <<1, 2>>, <<2, 3>> >>,
     bends |-> << <<0, 1, 2>>, <<1, 2, 3>> >>,
     diheds |-> << <<0, 1, 2, 3>> >>,
     ics |-> (icname_of("bond", "a") :> <<IC(<<0, 1>>, 0), IC(<<2, 3>>, 0)>>)
             @@ (icname_of("bond", "b") :> <<IC(<<1, 2>>, 0)>>)
             @@ (icname_of("angle", "a") :> <<IC(<<0, 1, 2>>, 0), IC(<<1, 2, 3>>, 0)>>)
             @@ (icname_of("dihed", "a") :> <<IC(<<0, 1, 2, 3>>, psi)>>),
     nlist |-> << <<1>>, <<0, 2>>, <<1, 3>>, <<2>> >>,
     ref |-> [coords |-> FArray(<<4, 3>>, <<0, 0, 0, 1, 0, 0, 1, 1, 0>> \o xyz),
              grad |-> FArray(<<12>>, [k \in 1..12 |-> (k % 3) - 1]),
              hess |-> FArray(<<12, 12>>, [k \in 1..144 |->
                          IF (k - 1) \div 12 = (k - 1) % 12 THEN 2
                          ELSE IF Abs(((k - 1) \div 12) - ((k - 1) % 12)) = 1 THEN -1
                          ELSE 0]),
              phess |-> FArray(<<12, 12>>, [k \in 1..144 |->
                          IF (k - 1) \div 12 = (k - 1) % 12 THEN 1 ELSE 0])],
     moved |-> FArray(<<4, 3>>, <<0, 0, 0, 1, 0, 1, 1, 2, 0, 2, 1, 2>>)]

\* the planar chain, whose dihedral group is kept, and the chain twisted by
\* 90 degrees, whose dihedral group is dropped
Chain == ChainOf(<<3, 1, 0>>, 180)
Twisted == ChainOf(<<1, 1, 1>>, 90)

ModelSystems == {Diatomic, Chain, Twisted}

\* the kinds from_system is called with, known and unknown
EIKinds ==
    { <<"Z", "e", "r", "o">>, <<"Z", "E", "R", "O">>,
      <<"C", "o", "u", "l", "P", "o", "i", "n", "t">>, str_coulgauss,
      <<"H", "a", "r", "m", "P", "o", "i", "n", "t">>,
      <<"H", "a", "r", "m", "G", "a", "u", "s", "s">>,
      <<"H", "a", "r", "m", "o", "n", "i", "c">>, <<"L", "J">> }
VDWKinds ==
    { str_zero, <<"L", "J">>, str_mm3, <<"H", "a", "r", "m", "L", "J">>,
      <<"H", "a", "r", "m", "M", "M", "3">>,
      <<"H", "a", "r", "m", "o", "n", "i", "c">>,
      <<"C", "o", "u", "l", "P", "o", "i", "n", "t">> }

ModelScales == { <<FZero, FZero, FInt(1)>>, <<FInt(1), FInt(1), FInt(1)>> }

ModelIcIds ==
    { << <<"a", "l", "l">> >>, << <<"d", "i", "h", "e", "d", "s">> >>,
      << <<"t", "o", "r", "s", "i", "o", "n">> >> }

\* The arguments of Model.from_system: for the chain every kind of the one
\* part with a known kind of the other, the default arguments for every
\* system, and the other arguments varied for some of the kinds
ModelArguments ==
    { [system |-> Chain, ai_project |-> TRUE, ic_ids |-> << <<"a", "l", "l">> >>,
       ei_scales |-> <<FZero, FZero, FInt(1)>>, ei_pot_kind |-> k[1],
       vdw_scales |-> <<FZero, FZero, FInt(1)>>, vdw_pot_kind |-> k[2],
       optimize |-> o] :
         k \in {x \in EIKinds \X VDWKinds : x[1] = str_coulgauss \/ x[2] = <<"L", "J">>},
         o \in BOOLEAN }
    \cup
    { DefaultArguments(s, o) : s \in ModelSystems, o \in BOOLEAN }
    \cup
    { [system |-> s, ai_project |-> p, ic_ids |-> << <<"a", "l", "l">> >>,
       ei_scales |-> <<FInt(1), FInt(1), FInt(1)>>,
       ei_pot_kind |-> <<"C", "o", "u", "l", "P", "o", "i", "n", "t">>,
       vdw_scales |-> <<FInt(1), FInt(1), FInt(1)>>, vdw_pot_kind |-> <<"L", "J">>,
       optimize |-> FALSE] : s \in ModelSystems, p \in BOOLEAN }
    \cup
    { [system |-> Chain, ai_project |-> TRUE, ic_ids |-> << <<"a", "l", "l">> >>,
       ei_scales |-> s1, ei_pot_kind |-> e, vdw_scales |-> s2, vdw_pot_kind |-> v,
       optimize |-> FALSE] :
         s1 \in ModelScales, s2 \in ModelScales,
         e \in { <<"Z", "e", "r", "o">>, <<"H", "a", "r", "m", "P", "o", "i", "n", "t">> },
         v \in { str_zero, <<"H", "a", "r", "m", "M", "M", "3">> } }
    \cup
    { [system |-> Chain, ai_project |-> TRUE, ic_ids |-> ids,
       ei_scales |-> <<FZero, FZero, FInt(1)>>, ei_pot_kind |-> <<"Z", "e", "r", "o">>,
       vdw_scales |-> <<FZero, FZero, FInt(1)>>, vdw_pot_kind |-> str_zero,
       optimize |-> FALSE] : ids \in ModelIcIds }

PartNames == {"ai", "val", "ei", "vdw", "nbyaff"}

InitModel ==
    /\ focus = "model"
    /\ pot = None
    /\ caller = None
    /\ ret = NoCall
    /\ heap = <<>>

\* Model.from_system(...): on an exception there is no Model
ModelFromSystem ==
    /\ focus = "model"
    /\ pot = None /\ caller = None
    /\ \E a \in ModelArguments :
          LET r == Model_from_system(<<>>, a.system, a.ai_project, a.ic_ids,
                                     a.ei_scales, a.ei_pot_kind, a.vdw_scales,
                                     a.vdw_pot_kind, a.optimize)
          IN  /\ pot' = IF r.raise = "" THEN r.self ELSE None
              /\ heap' = r.heap
              /\ caller' = [system |-> a.system, writes |-> 0]
              /\ ret' = [op |-> "from_system", raise |-> r.raise, made |-> r.made,
                         args |-> [x \in (DOMAIN a) \ {"system"} |-> a[x]]]
    /\ UNCHANGED focus

\* model.<part>.calc_energy(coords), calc_gradient(coords), calc_hessian(coords)
PartCalcEnergy ==
    /\ focus = "model"
    /\ pot # None /\ ret = NoCall
    /\ \E name \in PartNames, coords \in {caller.system.ref.coords, caller.system.moved} :
          LET r == BasePart_calc_energy(heap, pot[name], coords)
          IN  ret' = [op |-> "calc_energy", part |-> name, coords |-> coords,
                      raise |-> r.raise, value |-> IF r.raise = "" THEN r.value ELSE None]
    /\ UNCHANGED <<focus, pot, caller, heap>>

PartCalcGradient ==
    /\ focus = "model"
    /\ pot # None /\ ret = NoCall
    /\ \E name \in PartNames, coords \in {caller.system.ref.coords, caller.system.moved} :
          LET r == BasePart_calc_gradient(heap, pot[name], coords)
          IN  ret' = [op |-> "calc_gradient", part |-> name, coords |-> coords,
                      raise |-> r.raise, value |-> IF r.raise = "" THEN r.value ELSE None]
    /\ UNCHANGED <<focus, pot, caller, heap>>

PartCalcHessian ==
    /\ focus = "model"
    /\ pot # None /\ ret = NoCall
    /\ \E name \in PartNames, coords \in {caller.system.ref.coords, caller.system.moved} :
          LET r == BasePart_calc_hessian(heap, pot[name], coords)
          IN  ret' = [op |-> "calc_hessian", part |-> name, coords |-> coords,
                      raise |-> r.raise, value |-> IF r.raise = "" THEN r.value ELSE None]
    /\ UNCHANGED <<focus, pot, caller, heap>>

NextModel ==
    \/ ModelFromSystem \/ DetermineDihedralPotentials \/ UpdateFFTable
    \/ PartCalcEnergy \/ PartCalcGradient \/ PartCalcHessian \/ Return

SpecModel == InitModel /\ [][NextModel]_vars

\* a call of calc_energy, calc_gradient or calc_hessian on a part of the
\* Model has returned
PartCalled(op) == focus = "model" /\ ret.op = op
\* the number of atoms of the system of the Model
NAtoms == Len(caller.system.charges)
AllZero(a) == \A k \in 1..Len(a.data) : a.data[k] = FZero

\* C5: a Model built without nbyaff has a nonbonded part with a ZeroPot, and
\* so have the EIPart and the VDWPart that from_system builds for a kind that
\* is 'zero' in lower case, whatever the scales; a part with a ZeroPot returns
\* the energy 0.0, a gradient of N x 3 zeros and a Hessian of N x 3 x N x 3
\* zeros for coordinates of N atoms.
C5_ZeroPotential ==
    focus = "model" =>
        /\ pot # None => pot.nbyaff.pot = ZeroPot_init
        /\ ret.op = "from_system" /\ ret.raise = "" =>
              /\ str_lower(ret.args.ei_pot_kind) = str_zero =>
                    pot.ei.pot = ZeroPot_init /\ pot.ei.scales = ret.args.ei_scales
              /\ str_lower(ret.args.vdw_pot_kind) = str_zero =>
                    pot.vdw.pot = ZeroPot_init /\ pot.vdw.scales = ret.args.vdw_scales
        /\ ret.op \in {"calc_energy", "calc_gradient", "calc_hessian"}
           /\ pot[ret.part].pot.cls = "ZeroPot" =>
              /\ ret.raise = ""
              /\ ret.op = "calc_energy" => ret.value = FZero
              /\ ret.op = "calc_gradient" =>
                    /\ ret.value.shape = <<np_len(ret.coords), 3>>
                    /\ Len(ret.value.data) = 3 * np_len(ret.coords)
                    /\ AllZero(ret.value)
              /\ ret.op = "calc_hessian" =>
                    /\ ret.value.shape = <<np_len(ret.coords), 3, np_len(ret.coords), 3>>
                    /\ Len(ret.value.data) = 9 * np_len(ret.coords) * np_len(ret.coords)
                    /\ AllZero(ret.value)

\* the Hessian of an electrostatic part of kind 'ZERO' with the scales
\* 1, 1, 1 has been computed at the displaced geometry of four atoms
C5_Witness ==
    /\ PartCalled("calc_hessian") /\ ret.part = "ei"
    /\ pot.ei.pot = ZeroPot_init /\ pot.ei.scales = <<FInt(1), FInt(1), FInt(1)>>
    /\ pot.nbyaff.pot = ZeroPot_init
    /\ ret.coords = caller.system.moved /\ np_len(ret.coords) = 4
    /\ ret.value.shape = <<4, 3, 4, 3>> /\ AllZero(ret.value)

EIKnown == {str_zero, str_coulpoint, str_coulgauss, str_harmpoint, str_harmgauss}
VDWKnown == {str_zero, str_lj, str_mm3, str_harmlj, str_harmmm3}

\* C13: from_system accepts the kinds Zero, CoulPoint, CoulGauss, HarmPoint,
\* HarmGauss for the electrostatic part and Zero, LJ, MM3, HarmLJ, HarmMM3 for
\* the van der Waals part, in any letter case; for any other kind of either
\* part the call raises ValueError and there is no part.
C13_UnknownKindIsValueError ==
    focus = "model" /\ ret.op = "from_system" =>
        /\ str_lower(ret.args.ei_pot_kind) \in EIKnown
           /\ str_lower(ret.args.vdw_pot_kind) \in VDWKnown
           /\ ret.args.ic_ids # << <<"t", "o", "r", "s", "i", "o", "n">> >> =>
              ret.raise = "" /\ pot # None
        /\ str_lower(ret.args.ei_pot_kind) \notin EIKnown
           \/ str_lower(ret.args.vdw_pot_kind) \notin VDWKnown =>
              ret.raise = "ValueError" /\ pot = None

DefaultCall ==
    /\ focus = "model" /\ ret.op = "from_system"
    /\ \E o \in BOOLEAN : ret.args = [x \in (DOMAIN DefaultArguments(caller.system, o)) \ {"system"} |-> DefaultArguments(caller.system, o)[x]]

\* C21: Model.from_system called with its default arguments (ei_pot_kind and
\* vdw_pot_kind both 'Harmonic') never returns a Model, for every system: the
\* parts are made in the order ai, ei, vdw, val, and the electrostatic part
\* raises the ValueError of an unsupported kind when only the ai part has been
\* made, before the van der Waals and valence parts.
C21_DefaultsRaiseValueError ==
    /\ DefaultCall => ret.raise = "ValueError" /\ ret.made = <<"ai">> /\ pot = None
    /\ focus = "model" /\ ret.op = "from_system" =>
          \E n \in 1..4 : ret.made = SubSeq(<<"ai", "ei", "vdw", "val">>, 1, n)
C21_Witness ==
    /\ DefaultCall /\ caller.system = Twisted /\ ~ret.args.optimize
    /\ ret.args.ei_pot_kind = str_Harmonic /\ ret.args.vdw_pot_kind = str_Harmonic
    /\ ret.raise = "ValueError" /\ pot = None

\* the Model has just been built, or all the parameters of its valence part
\* have just been set
Built ==
    /\ focus = "model" /\ pot # None
    /\ \/ ret.op = "from_system"
       \/ ret.op = "update_fftable" /\ ret.raise = ""
Gradient(name) == BasePart_calc_gradient(heap, pot[name], caller.system.moved)
Hessian(name) == BasePart_calc_hessian(heap, pot[name], caller.system.moved)

\* C15 as stated: the gradients of the parts of one Model have one shape, 3N,
\* and the Hessians have one shape, 3N x 3N.
C15_SameShape ==
    Built =>
        \A name \in PartNames :
            /\ Gradient(name).raise = "" => Gradient(name).value.shape = <<3 * NAtoms>>
            /\ Hessian(name).raise = "" =>
                  Hessian(name).value.shape = <<3 * NAtoms, 3 * NAtoms>>

\* C15 as amended: the gradient of every part of one Model has 3N elements and
\* the Hessian 3N x 3N elements, for every pair of kinds; the pairwise and the
\* harmonic potentials return them with the shapes 3N and 3N x 3N, ZeroPot and
\* TermListPot with the shapes N x 3 and N x 3 x N x 3.
C15_SameDimension ==
    Built =>
        \A name \in PartNames :
            /\ Gradient(name).raise = "" =>
                  /\ Prod(Gradient(name).value.shape) = 3 * NAtoms
                  /\ Gradient(name).value.shape =
                        IF pot[name].pot.cls \in {"ZeroPot", "TermListPot"}
                        THEN <<NAtoms, 3>> ELSE <<3 * NAtoms>>
            /\ Hessian(name).raise = "" =>
                  /\ Prod(Hessian(name).value.shape) = 9 * NAtoms * NAtoms
                  /\ Hessian(name).value.shape =
                        IF pot[name].pot.cls \in {"ZeroPot", "TermListPot"}
                        THEN <<NAtoms, 3, NAtoms, 3>> ELSE <<3 * NAtoms, 3 * NAtoms>>

\* a Model of four atoms all of whose parts return a gradient: 12 elements
\* for the ab initio and the Lennard-Jones part, 4 x 3 for the valence, the
\* electrostatic and the nonbonded part
C15_Witness ==
    /\ Built /\ ret.op = "update_fftable" /\ NAtoms = 4
    /\ \A name \in PartNames : Gradient(name).raise = "" /\ Hessian(name).raise = ""
    /\ pot.vdw.pot.cls = "LennardJonesPot" /\ pot.ei.pot.cls = "ZeroPot"
    /\ Gradient("vdw").value.shape = <<12>> /\ Gradient("ai").value.shape = <<12>>
    /\ Gradient("val").value.shape = <<4, 3>> /\ Gradient("ei").value.shape = <<4, 3>>
    /\ Hessian("vdw").value.shape = <<12, 12>>
    /\ Hessian("nbyaff").value.shape = <<4, 3, 4, 3>>

\* the part of a Model that a harmonic kind was given for, with the class of
\* the pairwise potential that is expanded
HarmParts ==
    {x \in { <<"ei", "ei_pot_kind", "ei_scales", str_harmpoint, "CoulPointPot">>,
             <<"ei", "ei_pot_kind", "ei_scales", str_harmgauss, "CoulGaussPot">>,
             <<"vdw", "vdw_pot_kind", "vdw_scales", str_harmlj, "LennardJonesPot">>,
             <<"vdw", "vdw_pot_kind", "vdw_scales", str_harmmm3, "MM3BuckinghamPot">> } :
        str_lower(ret.args[x[2]]) = x[4]}
\* the exact potential of the same system and scales
ExactOf(x) ==
    PairPot_new(x[5], caller.system, ret.args[x[3]], Part_scaled_pairs(caller.system),
                caller.system.ref.coords)
X0 == caller.system.ref.coords

HarmonicOfExact(x) ==
    /\ pot[x[1]].pot.cls = "HarmonicPot"
    /\ heap[pot[x[1]].pot.coords0] = X0
    /\ pot[x[1]].pot.energy0 = FZero
    /\ heap[pot[x[1]].pot.grad0] = PairPot_calc_gradient(ExactOf(x), X0).value
    /\ heap[pot[x[1]].pot.hess0] = PairPot_calc_hessian(ExactOf(x), X0).value
    /\ BasePart_calc_gradient(heap, pot[x[1]], X0).value
          = PairPot_calc_gradient(ExactOf(x), X0).value
    /\ BasePart_calc_hessian(heap, pot[x[1]], X0).value
          = PairPot_calc_hessian(ExactOf(x), X0).value
    /\ BasePart_calc_energy(heap, pot[x[1]], X0).value = FZero

\* C18 as stated: for the kinds HarmPoint, HarmGauss, HarmLJ and HarmMM3 the
\* part holds a HarmonicPot around the reference coordinates with the energy
\* 0 and the gradient and Hessian of the exact potential there, and at the
\* reference coordinates the harmonic and the exact potential return the same
\* energy, 0, the same gradient and the same Hessian.
C18_HarmonicEqualsExactAtReference ==
    focus = "model" /\ ret.op = "from_system" /\ ret.raise = "" =>
        \A x \in HarmParts :
            /\ HarmonicOfExact(x)
            /\ PairPot_calc_energy(ExactOf(x), X0).value = FZero

\* C18 as amended: the same, but the energy that the exact potential returns
\* at the reference coordinates is 0 when at most one pair contributes to it;
\* with more pairs it is the rounding error of the sum, within the size of
\* its largest term.
C18_HarmonicEqualsExactDerivatives ==
    focus = "model" /\ ret.op = "from_system" /\ ret.raise = "" =>
        \A x \in HarmParts :
            /\ HarmonicOfExact(x)
            /\ Len(PairPot_calc_energy(ExactOf(x), X0).pairs) <= 1 =>
                  PairPot_calc_energy(ExactOf(x), X0).value = FZero

\* a Model whose electrostatic part is of the kind HarmPoint with the scales
\* 1, 1, 1: six pairs contribute, and the gradient at the reference
\* coordinates is not zero
C18_Witness ==
    /\ focus = "model" /\ ret.op = "from_system" /\ ret.raise = ""
    /\ str_lower(ret.args.ei_pot_kind) = str_harmpoint
    /\ ret.args.ei_scales = <<FInt(1), FInt(1), FInt(1)>>
    /\ pot.ei.pot.cls = "HarmonicPot"
    /\ Len(PairPot_calc_energy(ExactOf(CHOOSE x \in HarmParts : x[1] = "ei"), X0).pairs) = 6
    /\ ~AllZero(BasePart_calc_gradient(heap, pot.ei, X0).value)
    /\ BasePart_calc_energy(heap, pot.ei, X0).value = FZero

\* the exceptions that calc_energy, calc_gradient and calc_hessian of the
\* valence part of the Model end with, "" for none
ValRaises ==
    { BasePart_calc_energy(heap, pot.val, caller.system.moved).raise,
      BasePart_calc_gradient(heap, pot.val, caller.system.moved).raise,
      BasePart_calc_hessian(heap, pot.val, caller.system.moved).raise }

\* what C20 says of the part that from_system has returned, and of every part
\* that holds a placeholder
C20_Before ==
    /\ ret.op = "from_system" /\ ret.raise = "" =>
          \A icname \in DihedNames(pot.val) :
              /\ Len(pot.val.pot.terms[icname]) = Len(caller.system.ics[icname])
              /\ \A i \in 1..Len(pot.val.pot.terms[icname]) :
                    pot.val.pot.terms[icname][i] = None
    /\ pot # None /\ Placeholders(pot.val) # {} => "" \notin ValRaises
    /\ ret.op \in {"calc_energy", "calc_gradient", "calc_hessian"}
       /\ ret.part = "val" /\ Placeholders(pot.val) # {} => ret.raise # ""
\* what C20 says of the slots after determine_dihedral_potentials
C20_Slots ==
    ret.op = "determine_dihedral_potentials" =>
        /\ Placeholders(pot.val) = {}
        /\ \A icname \in DOMAIN pot.val.pot.terms :
           \A i \in 1..Len(pot.val.pot.terms[icname]) :
              pot.val.pot.terms[icname][i].cls \in {"HarmonicTerm", "CosineTerm"}
        /\ \A icname \in (DOMAIN ret.before.pot.terms) \ DihedNames(ret.before) :
              /\ icname \in DOMAIN pot.val.pot.terms
              /\ pot.val.pot.terms[icname] = ret.before.pot.terms[icname]

\* C20 as stated: from_system leaves a placeholder for every instance of a
\* dihedral group, and the part cannot be evaluated while it holds one; after
\* determine_dihedral_potentials no group of the part holds a placeholder,
\* every slot is a Term, the other groups are as they were, and calc_energy,
\* calc_gradient and calc_hessian complete.
C20_EvaluationAfterDetermine ==
    focus = "model" =>
        /\ C20_Before
        /\ C20_Slots
        /\ ret.op = "determine_dihedral_potentials" => ValRaises = {""}

\* C20 as amended: the same, but after determine_dihedral_potentials the
\* evaluation does not fail on a placeholder any more, and it completes when
\* the k and q0 of every Term of the part are numbers: the cosine Terms have
\* K = 0.0, the harmonic Terms of from_system have none until they are set.
C20_EvaluationAfterParameters ==
    focus = "model" =>
        /\ C20_Before
        /\ C20_Slots
        /\ pot # None /\ Placeholders(pot.val) = {} =>
              /\ "AttributeError" \notin ValRaises
              /\ ValRaises = {""} <=> Numeric(pot.val)
        /\ ret.op \in {"calc_energy", "calc_gradient", "calc_hessian"}
           /\ ret.part = "val" /\ Placeholders(pot.val) = {} =>
              (ret.raise = "" <=> Numeric(pot.val))

\* the gradient of a valence part of bonds, bends and one cosine Term has
\* been computed after determine_dihedral_potentials and update_fftable
C20_Witness ==
    /\ PartCalled("calc_gradient") /\ ret.part = "val" /\ ret.raise = ""
    /\ DihedNames(pot.val) = {icname_of("dihed", "a")}
    /\ pot.val.pot.terms[icname_of("dihed", "a")][1].cls = "CosineTerm"
    /\ pot.val.pot.terms[icname_of("bond", "a")][1].k = FInt(2)
    /\ Len(ret.value.terms) = 6

----------------------------------------------------------------------------
\* class NonbondedYaffPot
\*
\* The force field engine (a Yaff ForceField) is not code of this module. It
\* is an object of the heap with the names of its parts, the positions
\* system.pos, the positions its neighbour list was last updated for, and the
\* Coulomb potential of point charges that stands for its nonbonded parts;
\* compute() gives the energy, the gradient (N x 3) and the Hessian (3N x 3N)
\* of the geometry of the neighbour list.

ForceField(parts, pos, pair) ==
    [cls |-> "ForceField", parts |-> parts, pos |-> pos, nlist |-> pos, pair |-> pair]
ForceField_compute_energy(ff) == CoulPointPot_calc_energy(ff.pair, ff.nlist).value
ForceField_compute_gradient(ff) ==
    np_reshape(CoulPointPot_calc_gradient(ff.pair, ff.nlist).value, <<np_len(ff.pos), 3>>)
ForceField_compute_hessian(ff) == CoulPointPot_calc_hessian(ff.pair, ff.nlist).value

\* __init__ looking at the name of the first part only
Mut_NonbondedYaffPot_init(h, ff) ==
    IF Len(h[ff].parts) > 0 /\ h[ff].parts[1] = "valence"
    THEN [raise |-> "UserWarning"]
    ELSE [raise |-> "", self |-> [cls |-> "NonbondedYaffPot", kind |-> "NonbondedYaff",
                                  ff |-> ff]]

\* ff is the engine, an object of the heap h
NonbondedYaffPot_init(h, ff) ==
    IF "valence" \in SetOf(h[ff].parts)
    THEN [raise |-> "UserWarning"]
    ELSE [raise |-> "", self |-> [cls |-> "NonbondedYaffPot", kind |-> "NonbondedYaff",
                                  ff |-> ff]]

\* self.ff.system.pos[:] = coords; self.ff.nlist.update()
NonbondedYaffPot_set_coords(h, self, coords) ==
    With([h1 \in {[h EXCEPT ![self.ff].pos.data = coords.data]} |->
        [h1 EXCEPT ![self.ff].nlist = h1[self.ff].pos]])

\* calc_energy without the update of the neighbour list
Mut_NonbondedYaffPot_calc_energy(h, self, coords) ==
    With([h2 \in {[h EXCEPT ![self.ff].pos.data = coords.data]} |->
        [heap |-> h2, value |-> ForceField_compute_energy(h2[self.ff])]])

\* The heap after the call and the value returned.
NonbondedYaffPot_calc_energy(h, self, coords) ==
    With([h2 \in {NonbondedYaffPot_set_coords(h, self, coords)} |->
        [heap |-> h2, value |-> ForceField_compute_energy(h2[self.ff])]])

NonbondedYaffPot_calc_gradient(h, self, coords) ==
    With([h2 \in {NonbondedYaffPot_set_coords(h, self, coords)} |->
        [heap |-> h2,
         value |-> np_reshape(ForceField_compute_gradient(h2[self.ff]),
                              <<3 * np_len(coords)>>)]])

NonbondedYaffPot_calc_hessian(h, self, coords) ==
    With([h2 \in {NonbondedYaffPot_set_coords(h, self, coords)} |->
        With([ndof \in {Prod(h2[self.ff].pos.shape)} |->
        [heap |-> h2,
         value |-> np_reshape(ForceField_compute_hessian(h2[self.ff]), <<ndof, ndof>>)]])])

\* The engines a NonbondedYaffPot is built on
PartLists ==
    { <<>>, <<"pair_ei">>, <<"pair_ei", "pair_vdw">>, <<"valence", "pair_ei">>,
      <<"pair_vdw", "valence">> }

\* the geometries of a molecule that the caller evaluates
Geometries(mol) == {mol.coords, mol.moved, np_scale(FInt(2), mol.coords)}

InitYaff ==
    /\ focus = "yaff"
    /\ pot = None
    /\ ret = NoCall
    /\ \E parts \in PartLists, mol \in Molecules, scales \in ModelScales :
          /\ heap = << ForceField(parts, mol.coords,
                          [cls |-> "CoulPointPot"]
                          @@ CoulPointPot_init(mol.charges, scales,
                                 << << <<0, 1>> >>, <<>>, <<>> >>, None)) >>
          /\ caller = [ff |-> 1, parts |-> parts, built |-> FALSE,
                       geometries |-> Geometries(mol)]

\* NonbondedYaffPot(ff): on the exception there is no potential
YaffConstruct ==
    /\ focus = "yaff"
    /\ pot = None /\ ~caller.built
    /\ LET r == NonbondedYaffPot_init(heap, caller.ff)
       IN  /\ pot' = IF r.raise = "" THEN r.self ELSE None
           /\ ret' = [op |-> "__init__", raise |-> r.raise]
    /\ caller' = [caller EXCEPT !.built = TRUE]
    /\ UNCHANGED <<focus, heap>>

YaffCalcEnergy ==
    /\ focus = "yaff"
    /\ pot # None /\ ret = NoCall
    /\ \E coords \in caller.geometries :
          LET r == NonbondedYaffPot_calc_energy(heap, pot, coords)
          IN  /\ heap' = r.heap
              /\ ret' = [op |-> "calc_energy", coords |-> coords, value |-> r.value]
    /\ UNCHANGED <<focus, pot, caller>>

YaffCalcGradient ==
    /\ focus = "yaff"
    /\ pot # None /\ ret = NoCall
    /\ \E coords \in caller.geometries :
          LET r == NonbondedYaffPot_calc_gradient(heap, pot, coords)
          IN  /\ heap' = r.heap
              /\ ret' = [op |-> "calc_gradient", coords |-> coords, value |-> r.value]
    /\ UNCHANGED <<focus, pot, caller>>

YaffCalcHessian ==
    /\ focus = "yaff"
    /\ pot # None /\ ret = NoCall
    /\ \E coords \in caller.geometries :
          LET r == NonbondedYaffPot_calc_hessian(heap, pot, coords)
          IN  /\ heap' = r.heap
              /\ ret' = [op |-> "calc_hessian", coords |-> coords, value |-> r.value]
    /\ UNCHANGED <<focus, pot, caller>>

NextYaff ==
    YaffConstruct \/ YaffCalcEnergy \/ YaffCalcGradient \/ YaffCalcHessian \/ Return

SpecYaff == InitYaff /\ [][NextYaff]_vars

\* C16: NonbondedYaffPot(ff) raises and leaves no potential when a part of
\* the engine is named 'valence', and succeeds, holding the engine, when none
\* is; the part list of the engine is what it was before the call.
C16_ValenceEngineRejected ==
    focus = "yaff" =>
        /\ heap[caller.ff].parts = caller.parts
        /\ ret.op = "__init__" =>
              /\ ("valence" \in SetOf(caller.parts)) <=> ret.raise = "UserWarning"
              /\ ("valence" \notin SetOf(caller.parts)) <=> ret.raise = ""
              /\ ret.raise # "" => pot = None
              /\ ret.raise = "" => pot # None /\ pot.ff = caller.ff
        /\ pot # None => "valence" \notin SetOf(heap[pot.ff].parts)

\* the constructor has raised for an engine whose second part is 'valence'
C16_Witness ==
    /\ focus = "yaff" /\ ret.op = "__init__" /\ ret.raise = "UserWarning"
    /\ pot = None
    /\ heap[caller.ff].parts = <<"pair_vdw", "valence">>

\* All the potentials: ZeroPot, HarmonicPot, the four pairwise potentials and
\* TermListPot as the potentials of the parts of a Model, NonbondedYaffPot on
\* an engine
InitPotentials == InitModel \/ InitYaff
NextPotentials == NextModel \/ NextYaff
SpecPotentials == InitPotentials /\ [][NextPotentials]_vars

\* a call of calc_energy, calc_gradient or calc_hessian is made and returns
CalcStep ==
    /\ ret = NoCall
    /\ ret'.op \in {"calc_energy", "calc_gradient", "calc_hessian"}

\* what the call ret' on the NonbondedYaffPot returns when the engine was
\* left at the geometry prior by the calls before it
YaffResultAfter(prior) ==
    With([h \in {[heap EXCEPT ![pot.ff].pos = prior, ![pot.ff].nlist = prior]} |->
        CASE ret'.op = "calc_energy" ->
                NonbondedYaffPot_calc_energy(h, pot, ret'.coords).value
          [] ret'.op = "calc_gradient" ->
                NonbondedYaffPot_calc_gradient(h, pot, ret'.coords).value
          [] ret'.op = "calc_hessian" ->
                NonbondedYaffPot_calc_hessian(h, pot, ret'.coords).value])

\* C14 as stated: no call of calc_energy, calc_gradient or calc_hessian on any
\* potential changes the potential or anything it refers to, the coordinates
\* of the wrapped engine included.
C14_CalcsArePure ==
    [][CalcStep => pot' = pot /\ heap' = heap]_vars

\* C14 as amended: no such call changes the potential, and none but those of
\* NonbondedYaffPot changes anything the potential refers to; a call on a
\* NonbondedYaffPot leaves the engine at the coordinates it was given, with
\* the neighbour list updated for them and the parts as they were, and
\* returns the same result whatever geometry the calls before left there.
C14_CalcsArePureButEngine ==
    [][CalcStep =>
          /\ pot' = pot
          /\ focus # "yaff" => heap' = heap
          /\ focus = "yaff" =>
                /\ heap' = [heap EXCEPT ![pot.ff].pos.data = ret'.coords.data,
                                        ![pot.ff].nlist.data = ret'.coords.data]
                /\ \A prior \in caller.geometries : ret'.value = YaffResultAfter(prior)]_vars

\* the gradient has been computed by a NonbondedYaffPot at a geometry that is
\* not the one the engine was built with, and the engine is left there
C14_Witness ==
    /\ focus = "yaff" /\ ret.op = "calc_gradient" /\ pot # None
    /\ heap[pot.ff].pos = ret.coords /\ heap[pot.ff].nlist = ret.coords
    /\ \E k \in 1..Len(ret.coords.data) : ret.coords.data[k] = FInt(2)
    /\ ret.value.shape = <<3 * np_len(ret.coords)>>

\* The classification of one dihedral

MaxNeighbours == 5

InitDihedral ==
    /\ focus = "dihedral"
    /\ pot = None
    /\ \E n1 \in 1..MaxNeighbours, n2 \in 1..MaxNeighbours, psi \in -180..180 :
          caller = [n1 |-> n1, n2 |-> n2, psi |-> psi]
    /\ ret = NoCall
    /\ heap = <<>>

\* m, rv = ... of one pass of the loop over the dihedrals of a group
DihedralMrv ==
    /\ focus = "dihedral"
    /\ ret = NoCall
    /\ ret' = [op |-> "dihedral_mrv"]
                @@ dihedral_mrv(caller.n1, caller.n2, Abs(caller.psi))
    /\ UNCHANGED <<focus, pot, caller, heap>>

NextDihedral == DihedralMrv \/ Return

SpecDihedral == InitDihedral /\ [][NextDihedral]_vars

\* the candidate periodicity of an unordered pair of neighbour counts
PeriodicityTable ==
    [p \in {{4}, {3, 4}, {2, 4}, {3}, {2, 3}, {2}} |->
        IF p = {4} THEN 3 ELSE IF p = {3, 4} THEN 6 ELSE IF p = {2, 4} THEN 3
        ELSE IF p = {2} THEN 1 ELSE 2]

\* C6: a dihedral is classified from the unordered pair of neighbour counts
\* and psi0 = |psi|: the pair gives m by the table ({4,4}->3, {3,4}->6,
\* {2,4}->3, {3,3}->2, {2,3}->2, {2,2}->1), any other pair gives (-1, 0); with
\* per = 360/m and val = psi0 mod per the result is (m, 0) when val <= per/6
\* or val >= 5*per/6, (m, per/2) when 2*per/6 <= val <= 4*per/6 and (-1, 0)
\* otherwise, bounds included. For {4,4}: psi0 in 0..10 or 110..120 gives
\* (3, 0) and psi0 = 60 gives (3, 60).
C6_DihedralClassification ==
    (focus = "dihedral" /\ ret.op = "dihedral_mrv") =>
        LET p == {caller.n1, caller.n2}
            psi0 == Abs(caller.psi)
        IN  /\ p \notin DOMAIN PeriodicityTable => (ret.m = -1 /\ ret.rv = 0)
            /\ p \in DOMAIN PeriodicityTable =>
                  LET m == PeriodicityTable[p]
                      val6 == 6 * (psi0 % (360 \div m))
                  IN  /\ (val6 * m <= 360 \/ val6 * m >= 5 * 360)
                            => (ret.m = m /\ ret.rv = 0)
                      /\ (val6 * m >= 2 * 360 /\ val6 * m <= 4 * 360)
                            => (ret.m = m /\ ret.rv * 2 * m = 360)
                      /\ (val6 * m > 360 /\ val6 * m < 2 * 360)
                            => (ret.m = -1 /\ ret.rv = 0)
                      /\ (val6 * m > 4 * 360 /\ val6 * m < 5 * 360)
                            => (ret.m = -1 /\ ret.rv = 0)
            /\ (p = {4} /\ (psi0 \in 0..10 \/ psi0 \in 110..120))
                  => (ret.m = 3 /\ ret.rv = 0)
            /\ (p = {4} /\ psi0 = 60) => (ret.m = 3 /\ ret.rv = 60)

\* A dihedral between two atoms of four neighbours at -115 degrees has been
\* classified as (3, 0).
C6_Witness ==
    /\ focus = "dihedral" /\ ret.op = "dihedral_mrv"
    /\ caller.n1 = 4 /\ caller.n2 = 4 /\ caller.psi = -115
    /\ ret.m = 3 /\ ret.rv = 0

----------------------------------------------------------------------------
Init ==
    \/ InitPairwise \/ InitHarmonic \/ InitValence \/ InitFit \/ InitDihedral
    \/ InitModel \/ InitYaff
Next ==
    \/ NextPairwise \/ NextHarmonic \/ NextValence \/ NextFit \/ NextDihedral
    \/ NextModel \/ NextYaff
Spec == Init /\ [][Next]_vars
====
